---- MODULE Spec2Model ----
(***************************************************************************)
(* Model of gops (borankux/macos-ps-mcp): the entry operations of the      *)
(* system-introspection aggregator (ports, processes, windows) and the     *)
(* serving mode's start/stop lifecycle.                                    *)
(*                                                                         *)
(* One run of the program executes exactly one mode (main dispatches on    *)
(* its flags), so Init picks the mode `op` and each mode has its own       *)
(* actions.  Calls into the OS or into gopsutil are the environment: their *)
(* outcomes are drawn nondeterministically by the action that makes the    *)
(* call.  Go strings are TLA+ strings; the string functions of the Go      *)
(* standard library that the code uses are operators below.                *)
(***************************************************************************)
EXTENDS Integers, Sequences, FiniteSets, TLC

VARIABLES
    op,           \* mode selected by main: "ports", "processes", "windows", "server"
    goos,         \* runtime.GOOS
    pc,           \* position of the running entry operation
    cancelled,    \* ctx has been cancelled
    connections,  \* GetOpenPorts: raw connections iterated so far, with their lookup outcome
    portMap,      \* GetOpenPorts: portMap, key -> PortInfo
    allPorts,     \* value returned by the GetOpenPorts call
    filter,       \* port listing: the filter requested by the caller
    procs,        \* GetUserApplications: processes of the table iterated so far
    userProcs,    \* GetUserApplications: userProcs
    outputs,      \* answer of each primary collection call made so far (connection
                  \* enumeration, process table, window listing command)
    sigPc,        \* serving mode: position of the signal-handling goroutine
    server,       \* serving mode: Server.server, "nil" or "set"
    listening,    \* serving mode: the listening socket is open
    inShutdown,   \* serving mode: http.Server.Shutdown has begun
    inflight,     \* serving mode: requests accepted and not yet answered
    completed,    \* serving mode: requests answered
    signalled,    \* serving mode: a termination signal was delivered
    atSignal,     \* serving mode: the requests in flight when the signal was delivered
    exited,       \* serving mode: exit code of the process, -1 while it runs
    sample,       \* what each resource sampling call made so far was answered
    query,        \* HTTP handler: path and query values of the request
    httpStatus,   \* HTTP handler: the status code written, 0 before any
    result,       \* records returned by the entry operation
    err           \* error returned by the entry operation ("" is nil)

vars == <<op, goos, pc, cancelled, connections, portMap, allPorts, filter,
          procs, userProcs, outputs, sigPc, server, listening, inShutdown, inflight,
          completed, signalled, atSignal, exited, sample, query, httpStatus, result, err>>
portVars == <<connections, portMap, allPorts, filter>>
procVars == <<procs, userProcs>>
winVars == <<outputs>>
srvVars == <<sigPc, server, listening, inShutdown, inflight, completed, signalled,
             atSignal, exited>>
resVars == <<sample>>
httpVars == <<query, httpStatus>>

(***************************************************************************)
(* Bounds                                                                  *)
(***************************************************************************)
MaxConns == 3     \* longest list of raw connections the OS returns
MaxProcs == 2     \* largest process table
MaxLines == 2     \* most entries in the output of a window listing command
MaxReqs == 2      \* most requests the server receives in one run
MaxServices == 2  \* most services the listing command reports
MaxHttpConns == 2 \* most raw connections behind one /mcp/v1/ports request

(***************************************************************************)
(* Go standard library: strings                                            *)
(***************************************************************************)
UpperLetters == "ABCDEFGHIJKLMNOPQRSTUVWXYZ"
LowerLetters == "abcdefghijklmnopqrstuvwxyz"

CharAt(s, i) == SubSeq(s, i, i)

\* unicode.ToLower on ASCII: the lower-case letter of each upper-case letter
LowerOf ==
    [c \in { CharAt(UpperLetters, i) : i \in 1..26 } |->
        CharAt(LowerLetters, CHOOSE i \in 1..26 : CharAt(UpperLetters, i) = c)]

LowerChar(c) == IF c \in DOMAIN LowerOf THEN LowerOf[c] ELSE c

RECURSIVE MapLower(_)
MapLower(s) == IF s = "" THEN "" ELSE LowerChar(CharAt(s, 1)) \o MapLower(SubSeq(s, 2, Len(s)))

\* strings.ToLower: a string without an upper-case letter is returned as it is
ToLower(s) ==
    IF \A i \in 1..Len(s) : CharAt(s, i) \notin DOMAIN LowerOf THEN s ELSE MapLower(s)

HasPrefix(s, prefix) ==
    /\ Len(s) >= Len(prefix)
    /\ SubSeq(s, 1, Len(prefix)) = prefix

Contains(s, substr) ==
    \E i \in 1..(Len(s) + 1) :
        /\ i + Len(substr) - 1 <= Len(s)
        /\ SubSeq(s, i, i + Len(substr) - 1) = substr

\* strings.Index, 1-based; 0 when substr does not occur
Index(s, substr) ==
    IF Contains(s, substr)
    THEN CHOOSE i \in 1..(Len(s) + 1) :
            /\ i + Len(substr) - 1 <= Len(s)
            /\ SubSeq(s, i, i + Len(substr) - 1) = substr
            /\ \A j \in 1..(i - 1) : SubSeq(s, j, j + Len(substr) - 1) # substr
    ELSE 0

\* strings.Split with a non-empty separator
RECURSIVE Split(_, _)
Split(s, sep) ==
    LET i == Index(s, sep)
    IN  IF i = 0 THEN <<s>>
        ELSE <<SubSeq(s, 1, i - 1)>> \o Split(SubSeq(s, i + Len(sep), Len(s)), sep)

RECURSIVE Join(_, _)
Join(elems, sep) ==
    IF elems = <<>> THEN ""
    ELSE IF Len(elems) = 1 THEN elems[1]
    ELSE elems[1] \o sep \o Join(Tail(elems), sep)

\* strings.Trim(s, cutset), cutset given as a set of characters
RECURSIVE TrimLeft(_, _)
TrimLeft(s, cutset) ==
    IF s # "" /\ CharAt(s, 1) \in cutset THEN TrimLeft(SubSeq(s, 2, Len(s)), cutset) ELSE s
RECURSIVE TrimRight(_, _)
TrimRight(s, cutset) ==
    IF s # "" /\ CharAt(s, Len(s)) \in cutset THEN TrimRight(SubSeq(s, 1, Len(s) - 1), cutset) ELSE s
Trim(s, cutset) == TrimRight(TrimLeft(s, cutset), cutset)

WhiteSpace == {" ", "\t", "\n", "\r"}
TrimSpace(s) == Trim(s, WhiteSpace)

\* strings.Fields: the maximal runs of non-space characters
RECURSIVE Fields(_)
Fields(s) ==
    LET t == TrimLeft(s, WhiteSpace)
        n == IF \E i \in 1..Len(t) : CharAt(t, i) \in WhiteSpace
             THEN (CHOOSE i \in 1..Len(t) :
                      /\ CharAt(t, i) \in WhiteSpace
                      /\ \A j \in 1..(i - 1) : CharAt(t, j) \notin WhiteSpace) - 1
             ELSE Len(t)
    IN  IF t = "" THEN <<>>
        ELSE <<SubSeq(t, 1, n)>> \o Fields(SubSeq(t, n + 1, Len(t)))

Digits == "0123456789"
DigitValue(c) == (CHOOSE i \in 1..10 : CharAt(Digits, i) = c) - 1
IsDigit(c) == \E i \in 1..10 : CharAt(Digits, i) = c

MaxInt32 == 2147483647

\* the value of a digit string, or -1 when it exceeds MaxInt32
RECURSIVE DigitsValue(_, _)
DigitsValue(s, acc) ==
    IF s = "" THEN acc
    ELSE LET d == DigitValue(CharAt(s, 1))
         IN  IF acc > (MaxInt32 - d) \div 10 THEN -1
             ELSE DigitsValue(SubSeq(s, 2, Len(s)), acc * 10 + d)

\* strconv.ParseInt(s, 10, 32): [ok, val]; val is 0 on a syntax error and the
\* nearest int32 on a range error
ParseInt(s) ==
    LET neg  == s # "" /\ CharAt(s, 1) = "-"
        body == IF s # "" /\ CharAt(s, 1) \in {"+", "-"} THEN SubSeq(s, 2, Len(s)) ELSE s
        syntaxOk == body # "" /\ \A i \in 1..Len(body) : IsDigit(CharAt(body, i))
        mag  == DigitsValue(body, 0)
    IN  IF ~syntaxOk THEN [ok |-> FALSE, val |-> 0]
        ELSE IF mag = -1
             THEN IF neg
                  THEN [ok |-> TrimLeft(body, {"0"}) = "2147483648", val |-> -MaxInt32 - 1]
                  ELSE [ok |-> FALSE, val |-> MaxInt32]
        ELSE [ok |-> TRUE, val |-> IF neg THEN -mag ELSE mag]

(***************************************************************************)
(* internal/port/port.go                                                   *)
(***************************************************************************)
ListenAddrs == {<<"0.0.0.0", 80>>, <<"0.0.0.0", 443>>, <<"::1", 80>>}
Pids == {0, 7}

\* net.ConnectionStat as returned by net.ConnectionsWithContext(ctx, "inet")
RawConns ==
    { [Status |-> "LISTEN", IP |-> a[1], Port |-> a[2], Pid |-> p] : a \in ListenAddrs, p \in Pids }
    \cup { [Status |-> "LISTEN", IP |-> "0.0.0.0", Port |-> 0, Pid |-> 7] }
    \cup { [Status |-> "ESTABLISHED", IP |-> "0.0.0.0", Port |-> 80, Pid |-> 7] }

\* outcome of the per-connection process lookup (process.NewProcessWithContext,
\* p.NameWithContext, p.ExeWithContext): each call fails or succeeds on its own
NoLookup == [newErr |-> TRUE, nameErr |-> TRUE, exeErr |-> TRUE]
Lookups ==
    { NoLookup,
      [newErr |-> FALSE, nameErr |-> FALSE, exeErr |-> FALSE],
      [newErr |-> FALSE, nameErr |-> TRUE,  exeErr |-> FALSE],
      [newErr |-> FALSE, nameErr |-> FALSE, exeErr |-> TRUE] }

\* port.go:37-50: procName and exePath stay "" unless the lookup yields them
ResolvedName(conn, lk) ==
    IF conn.Pid > 0 /\ ~lk.newErr /\ ~lk.nameErr THEN "nginx" ELSE ""
ResolvedPath(conn, lk) ==
    IF conn.Pid > 0 /\ ~lk.newErr /\ ~lk.exeErr THEN "/usr/sbin/nginx" ELSE ""

\* mutant: the protocol is read off the wrong state word
getProtocol_MatchesListen(conn) ==
    IF Contains(ToLower(conn.Status), "listen") THEN "UDP" ELSE "TCP"

\* port.go:92-99
getProtocol(conn) ==
    IF Contains(ToLower(conn.Status), "udp") THEN "UDP" ELSE "TCP"

\* fmt.Sprintf("%s:%d", conn.Laddr.IP, port)
PortKey(conn) == conn.IP \o ":" \o ToString(conn.Port)

\* port.go:53-61
NewPortInfo(conn, lk) ==
    [Port     |-> conn.Port,
     Protocol |-> getProtocol(conn),
     PID      |-> conn.Pid,
     Name     |-> ResolvedName(conn, lk),
     Path     |-> ResolvedPath(conn, lk),
     State    |-> conn.Status,
     LocalIP  |-> conn.IP]

\* mutant: the state test of port.go:26 is missing
Skipped_NoStateTest(conn) == conn.Port = 0

\* mutant: the port test of port.go:31 is missing
Skipped_NoPortTest(conn) == conn.Status # "LISTEN"

\* port.go:26-28 and 30-33: the two `continue`s of the loop
Skipped(conn) == conn.Status # "LISTEN" \/ conn.Port = 0

\* mutant: a later entry always replaces the stored one
StorePort_LastWins(m, conn, lk) ==
    [k \in DOMAIN m \cup {PortKey(conn)} |->
        IF k = PortKey(conn) THEN NewPortInfo(conn, lk) ELSE m[k]]

\* port.go:64-71: keep the existing entry unless it has no name and this one has
StorePort(m, conn, lk) ==
    LET key == PortKey(conn)
        portInfo == NewPortInfo(conn, lk)
    IN  IF key \in DOMAIN m
        THEN IF m[key].Name = "" /\ portInfo.Name # ""
             THEN [m EXCEPT ![key] = portInfo]
             ELSE m
        ELSE [k \in DOMAIN m \cup {key} |-> IF k = key THEN portInfo ELSE m[k]]

\* mutant: an entry whose process handle cannot be opened is dropped
PortLoopBody_DropUnresolved(m, conn, lk) ==
    IF Skipped(conn) \/ (conn.Pid > 0 /\ lk.newErr) THEN m ELSE StorePort(m, conn, lk)

\* one iteration of the loop port.go:24-72
PortLoopBody(m, conn, lk) == IF Skipped(conn) THEN m ELSE StorePort(m, conn, lk)

\* port.go:74-77: `for _, portInfo := range portMap` visits the keys in any order
MapOrders(m) ==
    { o \in [1..Cardinality(DOMAIN m) -> DOMAIN m] :
        \A i, j \in DOMAIN o : i # j => o[i] # o[j] }
MapValues(m, o) == [i \in DOMAIN o |-> m[o[i]]]

Swap(s, i, j) == [s EXCEPT ![i] = s[j], ![j] = s[i]]

\* the list is returned in the order the map was visited
SortPorts_None(s) == s

\* port.go:80-86, the exchange sort (1-based indices)
RECURSIVE SortInner(_, _, _)
SortInner(s, i, j) ==
    IF j > Len(s) THEN s
    ELSE SortInner(IF s[i].Port > s[j].Port THEN Swap(s, i, j) ELSE s, i, j + 1)
RECURSIVE SortOuter(_, _)
SortOuter(s, i) ==
    IF i > Len(s) - 1 THEN s ELSE SortOuter(SortInner(s, i, i + 1), i + 1)
SortPorts(s) == SortOuter(s, 1)

\* mutant: the loop stops at the first matching record
RECURSIVE FilterBy_FirstMatch(_, _, _)
FilterBy_FirstMatch(ports, field, v) ==
    IF ports = <<>> THEN <<>>
    ELSE IF Head(ports)[field] = v THEN <<Head(ports)>>
         ELSE FilterBy_FirstMatch(Tail(ports), field, v)

\* port.go:108-113 and 125-130: append the matching records in order
RECURSIVE FilterBy(_, _, _)
FilterBy(ports, field, v) ==
    IF ports = <<>> THEN <<>>
    ELSE (IF Head(ports)[field] = v THEN <<Head(ports)>> ELSE <<>>)
         \o FilterBy(Tail(ports), field, v)

\* the caller's request (cli.go:82-96, server.go:108-124): unfiltered, by port
\* number (GetPortInfoByPort) or by pid (GetPortsByPID)
NoFilter == [kind |-> "none", arg |-> 0]
PortFilters ==
    {NoFilter}
    \cup { [kind |-> "port", arg |-> n] : n \in {80} }
    \cup { [kind |-> "pid", arg |-> p] : p \in {7} }

ApplyFilter(ports, f) ==
    CASE f.kind = "none" -> ports
      [] f.kind = "port" -> FilterBy(ports, "Port", f.arg)
      [] f.kind = "pid"  -> FilterBy(ports, "PID", f.arg)

EmptyMap == [k \in {} |-> 0]

(***************************************************************************)
(* internal/process/process.go                                             *)
(***************************************************************************)
getSystemPrefixes(os) ==
    CASE os = "darwin"  -> <<"com.apple", "kernel", "WindowServer", "launchd", "syspolicyd", "trustd">>
      [] os = "linux"   -> <<"[", "kthreadd", "ksoftirqd", "migration", "rcu_", "systemd", "init">>
      [] os = "windows" -> <<"System", "smss", "csrss", "winlogon", "services", "lsass",
                             "svchost", "spoolsv", "SearchIndexer">>
      [] OTHER          -> <<"kernel", "init", "system">>

getSystemUsers(os) ==
    CASE os = "darwin"  -> <<"root", "_windowserver", "_appleevents", "_coreaudiod", "_securityd">>
      [] os = "linux"   -> <<"root", "daemon", "bin", "sys", "sync", "games", "man", "lp", "mail",
                             "news", "uucp", "proxy", "www-data", "backup", "list", "irc",
                             "gnats", "nobody">>
      [] os = "windows" -> <<"SYSTEM", "LOCAL SERVICE", "NETWORK SERVICE">>
      [] OTHER          -> <<"root", "system", "daemon">>

\* mutant: the comparison is case-sensitive
isSystemProcess_CaseSensitive(name, prefixes) ==
    \E i \in DOMAIN prefixes : HasPrefix(name, prefixes[i])

isSystemProcess(name, prefixes) ==
    LET nameLower == ToLower(name)
    IN  \E i \in DOMAIN prefixes : HasPrefix(ToLower(nameLower), ToLower(prefixes[i]))

isSystemUser(username, os) ==
    LET systemUsers == getSystemUsers(os)
        usernameLower == ToLower(username)
    IN  \E i \in DOMAIN systemUsers : ToLower(systemUsers[i]) = usernameLower

formatTime(timestamp) == ""

\* One entry of the process table as gopsutil answers for it: for each fetch,
\* whether it fails and the value it yields otherwise.
ProcAttrs ==
    \* NameWithContext fails
    { [nameErr |-> TRUE, name |-> "", exeErr |-> FALSE, exe |-> "/usr/bin/chrome",
       userErr |-> FALSE, user |-> "alice", statusErr |-> FALSE, ctimeErr |-> FALSE] }
    \cup
    \* names and owners of every kind, everything else fetched
    { [nameErr |-> FALSE, name |-> n, exeErr |-> FALSE, exe |-> "/usr/bin/chrome",
       userErr |-> FALSE, user |-> u, statusErr |-> FALSE, ctimeErr |-> FALSE] :
          n \in {"systemd", "Kernel", "Chrome"}, u \in {"root", "alice"} }
    \cup
    { [nameErr |-> FALSE, name |-> "Chrome", exeErr |-> FALSE, exe |-> "/usr/bin/chrome",
       userErr |-> FALSE, user |-> u, statusErr |-> FALSE, ctimeErr |-> FALSE] :
          u \in {"", "System"} }
    \cup
    \* UsernameWithContext fails
    { [nameErr |-> FALSE, name |-> "Chrome", exeErr |-> FALSE, exe |-> "/usr/bin/chrome",
       userErr |-> TRUE, user |-> "alice", statusErr |-> FALSE, ctimeErr |-> FALSE] }
    \cup
    \* ExeWithContext fails, or succeeds with an empty path
    { [nameErr |-> FALSE, name |-> "Chrome", exeErr |-> ee, exe |-> "",
       userErr |-> FALSE, user |-> "alice", statusErr |-> FALSE, ctimeErr |-> FALSE] :
          ee \in BOOLEAN }
    \cup
    \* StatusWithContext or CreateTimeWithContext fails
    { [nameErr |-> FALSE, name |-> "Chrome", exeErr |-> FALSE, exe |-> "/usr/bin/chrome",
       userErr |-> FALSE, user |-> "alice", statusErr |-> se, ctimeErr |-> ce] :
          se \in BOOLEAN, ce \in BOOLEAN }

\* the pids of the process table
ProcPids == {100, 4000} \cup { 4000 + i : i \in 1..(MaxProcs - 2) }

\* part_001:41-49: username stays "" unless the fetch succeeds
FetchedUser(p) == IF p.userErr THEN "" ELSE p.user

\* mutant: a failed status fetch skips the process as well
ProcSkipped_StatusFatal(p, os) ==
    \/ p.nameErr
    \/ isSystemProcess(p.name, getSystemPrefixes(os))
    \/ p.exeErr
    \/ (~p.userErr /\ isSystemUser(p.user, os))
    \/ FetchedUser(p) = ""
    \/ p.statusErr

\* part_001:24-54: the `continue`s of the loop, in the order the code takes them
ProcSkipped(p, os) ==
    \/ p.nameErr
    \/ isSystemProcess(p.name, getSystemPrefixes(os))
    \/ p.exeErr
    \/ (~p.userErr /\ isSystemUser(p.user, os))
    \/ FetchedUser(p) = ""

\* part_001:56-74
NewProcessInfo(p) ==
    [PID       |-> p.Pid,
     Name      |-> p.name,
     Path      |-> p.exe,
     Status    |-> IF p.statusErr THEN "" ELSE Join(<<"S">>, ","),
     User      |-> FetchedUser(p),
     StartTime |-> IF p.ctimeErr THEN "" ELSE formatTime(0)]

\* one iteration of the loop part_001:23-75
ProcLoopBody(list, p, os) ==
    IF ProcSkipped(p, os) THEN list ELSE Append(list, NewProcessInfo(p))

\* the list is returned in the order of the process table
SortByPID_None(list) == list

\* part_001:78-80: sort.Slice with less = PID order (pids are distinct in a table)
RECURSIVE SortByPID(_)
SortByPID(list) ==
    IF list = <<>> THEN <<>>
    ELSE LET m == CHOOSE i \in DOMAIN list : \A j \in DOMAIN list : list[i].PID <= list[j].PID
         IN  <<list[m]>> \o SortByPID(SubSeq(list, 1, m - 1) \o SubSeq(list, m + 1, Len(list)))

(***************************************************************************)
(* internal/window/window.go                                               *)
(***************************************************************************)
NewWindowInfo(title, pid, process) ==
    [Title |-> title, PID |-> pid, Process |-> process, AppName |-> process]

\* s[lo:hi] of Go on a sequence (0-based, hi exclusive)
Slice(parts, lo, hi) == SubSeq(parts, lo + 1, hi)

\* window.go:62-103: the loop body of the primary macOS parse for one item;
\* pgrep is what getPIDForApp returns when it is called
MacLine(windows, rawLine, pgrep) ==
    LET line  == TrimSpace(rawLine)
        parts == Split(line, ",")
        appName == TrimSpace(Trim(parts[1], {"\""}))
        title == TrimSpace(Trim(Join(Slice(parts, 1, Len(parts) - 1), ","), {"\""}))
        p     == ParseInt(TrimSpace(parts[Len(parts)]))
        pid   == IF Len(parts) >= 3 /\ p.ok THEN p.val ELSE pgrep
    IN  IF line = "" \/ Contains(line, "missing value") THEN windows
        ELSE IF Contains(line, "text") THEN windows
        ELSE IF Len(parts) >= 2 /\ appName # "" /\ title # ""
             THEN Append(windows, NewWindowInfo(title, pid, appName))
             ELSE windows

\* window.go:147-173: the loop body of the fallback macOS parse for one line
MacAltLine(windows, rawLine, pgrep) ==
    LET line  == TrimSpace(rawLine)
        parts == Split(line, "|")
        appName == TrimSpace(parts[1])
        title == TrimSpace(parts[2])
        p     == ParseInt(TrimSpace(parts[3]))
        pid   == IF p.ok THEN p.val ELSE pgrep
    IN  IF line = "" THEN windows
        ELSE IF Len(parts) >= 3 /\ appName # "" /\ title # ""
             THEN Append(windows, NewWindowInfo(title, pid, appName))
             ELSE windows

\* window.go:189-206: the loop body of the Linux parse for one line; procName is
\* what getProcessName returns for the line's pid
LinuxLine(windows, line, procName) ==
    LET parts == Fields(line)
        pid   == ParseInt(parts[3]).val
        title == Join(Slice(parts, 4, Len(parts)), " ")
    IN  IF Len(parts) >= 5
        THEN Append(windows, NewWindowInfo(title, pid, procName))
        ELSE windows

\* window.go:228-252: the loop body of the Windows parse for one line
WindowsLine(windows, rawLine, unused) ==
    LET line  == TrimSpace(rawLine)
        parts == Split(line, "|")
        p     == ParseInt(TrimSpace(parts[1]))
        processName == TrimSpace(parts[2])
        title == TrimSpace(parts[3])
    IN  IF line = "" THEN windows
        ELSE IF Len(parts) >= 3 /\ p.ok
             THEN Append(windows, NewWindowInfo(title, p.val, processName))
             ELSE windows

\* `for _, line := range lines` with the loop body of the variant; aux[i] is the
\* answer of the helper command the body may run for line i
RECURSIVE ParseLines(_, _, _, _, _)
ParseLines(variant, lines, aux, i, windows) ==
    IF i > Len(lines) THEN windows
    ELSE ParseLines(variant, lines, aux, i + 1,
            CASE variant = "mac"     -> MacLine(windows, lines[i], aux[i])
              [] variant = "macAlt"  -> MacAltLine(windows, lines[i], aux[i])
              [] variant = "linux"   -> LinuxLine(windows, lines[i], aux[i])
              [] variant = "windows" -> WindowsLine(windows, lines[i], aux[i]))

\* window.go:59, 144, 186, 226: how each variant cuts the output into lines
LinesOf(variant, output) ==
    Split(TrimSpace(output), IF variant = "mac" THEN ", " ELSE "\n")

ParseWindows(variant, output, aux) ==
    ParseLines(variant, LinesOf(variant, output), aux, 1, <<>>)

\* entries a listing command may print, per variant
OutputItems(variant) ==
    CASE variant = "mac"     -> {"Finder", "Notes,Doc,7", "\"Notes\",\"My,Doc\",x", ",Doc,7",
                                 "Notes,,7", "Notes,text,7"}
      [] variant = "macAlt"  -> {"Notes|Doc|7", "Notes|My Doc|x", "Notes| |7", "|Doc|7", "Notes|Doc"}
      [] variant = "linux"   -> {"0x01 0 42 host My Doc", "0x01 0 42 host", "0x01 -1 x host Doc"}
      [] variant = "windows" -> {"42|notepad|Doc", "42||Doc", "42|notepad| ", "x|notepad|Doc",
                                 "42|notepad"}

Separator(variant) == IF variant = "mac" THEN ", " ELSE "\n"

\* the outputs a listing command may produce: up to MaxLines entries
CommandOutputs(variant) ==
    { Join(items, Separator(variant)) :
        items \in UNION { [1..n -> OutputItems(variant)] : n \in 0..MaxLines } }

\* what the helper command answers: getPIDForApp (pgrep) a pid or 0,
\* getProcessName (ps) a name or ""
AuxAnswers(variant) ==
    CASE variant \in {"mac", "macAlt"} -> {0, 7}
      [] variant = "linux"             -> {"", "firefox"}
      [] variant = "windows"           -> {0}

\* helper answers for every line of the output
AuxFor(variant, output) ==
    [1..Len(LinesOf(variant, output)) -> AuxAnswers(variant)]

\* a platform without a variant of its own runs the Linux one
VariantOf_DefaultLinux(os) ==
    CASE os = "darwin"  -> "mac"
      [] os = "windows" -> "windows"
      [] OTHER          -> "linux"

\* window.go:15-24: the variant GetOpenWindows dispatches to
VariantOf(os) ==
    CASE os = "darwin"  -> "mac"
      [] os = "linux"   -> "linux"
      [] os = "windows" -> "windows"
      [] OTHER          -> "none"

\* window.go:30-51, 116-136, 180, 213-218: the listing command a variant runs;
\* on macOS the second script is run at position "alt"
CommandOf(os, at) ==
    CASE os = "darwin" /\ at = "alt" -> "osascript-alt"
      [] os = "darwin" /\ at # "alt" -> "osascript"
      [] os = "linux"                -> "wmctrl"
      [] os = "windows"              -> "powershell"
      [] OTHER                       -> ""

(***************************************************************************)
(* Resource usage: GetProcessResourceUsage, FormatBytes, FormatCPU         *)
(*                                                                         *)
(* A CPU or memory percentage is held in thousandths of a percent, so that *)
(* 0.005 is 5 and 150 is 150000.  A uint64 byte count is held as the       *)
(* record [m, e] standing for m * 1024^e, with m below 2^30 and m >= 1     *)
(* when e > 0.                                                             *)
(***************************************************************************)
Pad2(n) == IF n < 10 THEN "0" \o ToString(n) ELSE ToString(n)

\* mutant: the cap applies above 100 only
FormatCPU_StrictCap(cpu) ==
    IF cpu < 10 THEN "< 0.01%"
    ELSE IF cpu > 100000 THEN "100%"
    ELSE LET h == (cpu + 5) \div 10
         IN  ToString(h \div 100) \o "." \o Pad2(h % 100) \o "%"

\* format.go:23-31
FormatCPU(cpu) ==
    IF cpu < 10 THEN "< 0.01%"
    ELSE IF cpu >= 100000 THEN "100%"
    ELSE LET h == (cpu + 5) \div 10      \* math.Round(cpu*100), in hundredths
         IN  ToString(h \div 100) \o "." \o Pad2(h % 100) \o "%"

\* uint64(n) for an n below 2^30
U64(n) == [m |-> n, e |-> 0]

\* format.go:11, 14: bytes < unit
LessThanUnit(b) == b.e = 0 /\ b.m < 1024

\* format.go:14: bytes / unit, n /= unit
DivUnit(b) == IF b.e > 0 THEN [b EXCEPT !.e = b.e - 1] ELSE [b EXCEPT !.m = b.m \div 1024]

\* format.go:13-17: for n := bytes / unit; n >= unit; n /= unit { div *= unit; exp++ }
\* div is held as the number k of factors: the int64 div is 1024^k, which is
\* exact up to k = 6 (2^60) and wraps to 0 from k = 7 on
RECURSIVE UnitLoop(_, _, _)
UnitLoop(n, div, exp) ==
    IF ~LessThanUnit(n) THEN UnitLoop(DivUnit(n), div + 1, exp + 1)
    ELSE [div |-> div, exp |-> exp]

UnitLetters == "KMGTPE"

\* fmt's %.2f of num/den: nearest hundredth, an exact tie goes to the even digit
Fixed2(num, den) ==
    LET whole == num \div den
        h100  == (num % den) * 100
        hq    == h100 \div den
        hr    == h100 % den
        up    == 2 * hr > den \/ (2 * hr = den /\ hq % 2 = 1)
        h     == whole * 100 + hq + (IF up THEN 1 ELSE 0)
    IN  ToString(h \div 100) \o "." \o Pad2(h % 100)

\* format.go:19: float64(bytes)/float64(div) printed with %.2f, for a div of k
\* factors; a wrapped div is 0 and the quotient is +Inf
Quotient2(bytes, k) ==
    IF k > 6 THEN "+Inf" ELSE Fixed2(bytes.m, 1024 ^ (k - bytes.e))

\* mutant: the loop starts from bytes instead of bytes / unit
FormatBytes_LoopFromBytes(bytes) ==
    IF LessThanUnit(bytes) THEN ToString(bytes.m) \o " B"
    ELSE LET u == UnitLoop(bytes, 1, 0)
         IN  IF u.exp >= Len(UnitLetters) THEN "panic: index out of range"
             ELSE Quotient2(bytes, u.div) \o " " \o CharAt(UnitLetters, u.exp + 1) \o "B"

\* format.go:9-20; "KMGTPE"[exp] panics when exp is not below 6
FormatBytes(bytes) ==
    IF LessThanUnit(bytes) THEN ToString(bytes.m) \o " B"
    ELSE LET u == UnitLoop(DivUnit(bytes), 1, 0)
         IN  IF u.exp >= Len(UnitLetters) THEN "panic: index out of range"
             ELSE Quotient2(bytes, u.div) \o " " \o CharAt(UnitLetters, u.exp + 1) \o "B"

\* the float64 arguments of FormatCPU, in thousandths of a percent; between the
\* two thresholds a value half way between two hundredths is left out, since no
\* float64 is exactly such a value
CpuInputs ==
    { v \in (-20..30) \cup (99980..100010)
              \cup {-5000, 1000, 1004, 1006, 12344, 12346, 50000, 150000} :
        v < 10 \/ v >= 100000 \/ v % 10 # 5 }

\* the uint64 arguments of FormatBytes: every magnitude up to 15 * 1024^6, with
\* mantissas around the unit steps
Mantissas ==
    {0, 1, 15, 16, 512, 1023, 1024, 1025, 1536, 2047, 16383, 1048575, 1048576,
     1179648, 5242880, 16777215, 1073741823}
ByteInputs ==
    { b \in [m : Mantissas, e : 0..6] :
        /\ b.e > 0 => b.m >= 1
        /\ b.e = 4 => b.m < 16777216
        /\ b.e = 5 => b.m < 16384
        /\ b.e = 6 => b.m < 16 }

\* what the OS may report as CPU percentage, and as resident set size
CpuAnswers == {0, 5, 50000, 150000}
RssAnswers == {0, 1536, 5242880}

\* the answers of gopsutil to one GetProcessResourceUsage call; a fetch that
\* fails returns the zero value with its error
NotFoundSample ==
    [newErr |-> TRUE, nameErr |-> FALSE, cpuErr |-> FALSE, cpu |-> 0, memPctErr |-> FALSE,
     memInfoErr |-> FALSE, memInfoNil |-> FALSE, rss |-> 0, threadsErr |-> FALSE, fdsErr |-> FALSE]

NoMemInfoSamples ==
    { [NotFoundSample EXCEPT !.newErr = FALSE, !.memInfoErr = TRUE, !.nameErr = ne,
                             !.cpuErr = c[1], !.cpu = c[2], !.memPctErr = me] :
        ne \in BOOLEAN, me \in BOOLEAN,
        c \in {<<TRUE, 0>>} \cup {<<FALSE, v>> : v \in CpuAnswers} }

FullSamples ==
    { [newErr |-> FALSE, nameErr |-> ne, cpuErr |-> c[1], cpu |-> c[2], memPctErr |-> me,
       memInfoErr |-> FALSE, memInfoNil |-> m[1], rss |-> m[2], threadsErr |-> te, fdsErr |-> fe] :
        ne \in BOOLEAN, me \in BOOLEAN, te \in BOOLEAN, fe \in BOOLEAN,
        c \in {<<TRUE, 0>>} \cup {<<FALSE, v>> : v \in CpuAnswers},
        m \in {<<TRUE, 0>>} \cup {<<FALSE, v>> : v \in RssAnswers} }

ResSamples == {NotFoundSample} \cup NoMemInfoSamples \cup FullSamples

\* part_001:180-191: the record built from the answers
NewResourceUsage(pid, s) ==
    LET cpuPercent == IF s.cpuErr THEN 0 ELSE s.cpu
        memoryRSS  == IF s.memInfoNil THEN 0 ELSE s.rss
        memoryVMS  == IF s.memInfoNil THEN 0 ELSE 2 * s.rss
    IN  [PID |-> pid,
         Name |-> IF s.nameErr THEN "" ELSE "nginx",
         CPUPercent |-> cpuPercent,
         MemoryPercent |-> IF s.memPctErr THEN 0 ELSE 2500,
         MemoryRSS |-> memoryRSS,
         MemoryVMS |-> memoryVMS,
         MemoryHuman |-> FormatBytes(U64(memoryRSS)),
         CPUHuman |-> FormatCPU(cpuPercent),
         Threads |-> IF s.threadsErr THEN 0 ELSE 4,
         OpenFiles |-> IF s.fdsErr THEN 0 ELSE 16]

\* the error is reported and a partly filled record comes with it
GetProcessResourceUsage_Partial(pid, s) ==
    IF s.newErr THEN [err |-> "process does not exist", usage |-> <<NewResourceUsage(pid, s)>>]
    ELSE IF s.memInfoErr THEN [err |-> "memory info: error", usage |-> <<>>]
    ELSE [err |-> "", usage |-> <<NewResourceUsage(pid, s)>>]

\* the failure of any sub-sample is fatal
GetProcessResourceUsage_Strict(pid, s) ==
    IF s.newErr THEN [err |-> "process does not exist", usage |-> <<>>]
    ELSE IF s.memInfoErr \/ s.nameErr \/ s.cpuErr \/ s.memPctErr \/ s.threadsErr \/ s.fdsErr
         THEN [err |-> "sample: error", usage |-> <<>>]
    ELSE [err |-> "", usage |-> <<NewResourceUsage(pid, s)>>]

\* part_001:152-192: usage is <<>> for a nil record
GetProcessResourceUsage(pid, s) ==
    IF s.newErr THEN [err |-> "process does not exist", usage |-> <<>>]
    ELSE IF s.memInfoErr THEN [err |-> "memory info: error", usage |-> <<>>]
    ELSE [err |-> "", usage |-> <<NewResourceUsage(pid, s)>>]

ResPids == {7, 4000}

(***************************************************************************)
(* Service listing: GetServices and its platform variants                  *)
(***************************************************************************)
\* strings.ReplaceAll
RECURSIVE ReplaceAll(_, _, _)
ReplaceAll(s, old, new) ==
    LET i == Index(s, old)
    IN  IF i = 0 THEN s
        ELSE SubSeq(s, 1, i - 1) \o new
             \o ReplaceAll(SubSeq(s, i + Len(old), Len(s)), old, new)

\* a types.ServiceInfo literal; usage is <<>> when no resource fields are set
NewServiceInfo(name, status, pid, usage) ==
    [Name |-> name, Status |-> status, PID |-> pid,
     CPUPercent    |-> IF usage = <<>> THEN 0 ELSE usage[1].CPUPercent,
     MemoryPercent |-> IF usage = <<>> THEN 0 ELSE usage[1].MemoryPercent,
     MemoryHuman   |-> IF usage = <<>> THEN "" ELSE usage[1].MemoryHuman,
     CPUHuman      |-> IF usage = <<>> THEN "" ELSE usage[1].CPUHuman]

\* a service whose resource sample fails is left out of the list
Sampled_DropOnFailure(st, name, status, pid, s) ==
    LET r == GetProcessResourceUsage(pid, s)
    IN  [services |-> IF r.err # "" THEN st.services
                      ELSE Append(st.services, NewServiceInfo(name, status, pid, r.usage)),
         calls    |-> Append(st.calls, [pid |-> pid, s |-> s])]

\* part_002:67-85, 127-148, 209-219: the resource sample of a service with a
\* pid, and the record appended; st holds the list and the sampling calls made
Sampled(st, name, status, pid, s) ==
    LET r == GetProcessResourceUsage(pid, s)
    IN  [services |-> Append(st.services,
                             NewServiceInfo(name, status, pid,
                                            IF r.err # "" THEN <<>> ELSE r.usage)),
         calls    |-> Append(st.calls, [pid |-> pid, s |-> s])]

\* the record of a service that is not sampled
Unsampled(st, name, status, pid) ==
    [st EXCEPT !.services = Append(st.services, NewServiceInfo(name, status, pid, <<>>))]

\* a pid that is not positive is kept in the record
MacServiceLine_KeepsPid(st, rawLine, aux) ==
    LET line   == TrimSpace(rawLine)
        fields == Fields(line)
        status == fields[2]
        name   == Join(Slice(fields, 2, Len(fields)), " ")
        pid    == ParseInt(fields[1])
    IN  IF line = "" \/ Len(fields) < 3 THEN st
        ELSE IF ~pid.ok \/ pid.val <= 0 THEN Unsampled(st, name, status, pid.val)
        ELSE Sampled(st, name, status, pid.val, aux.s)

\* part_002:42-85: the loop body of getMacOSServices for one line of launchctl
MacServiceLine(st, rawLine, aux) ==
    LET line   == TrimSpace(rawLine)
        fields == Fields(line)
        status == fields[2]
        name   == Join(Slice(fields, 2, Len(fields)), " ")
        pid    == ParseInt(fields[1])
    IN  IF line = "" \/ Len(fields) < 3 THEN st
        ELSE IF ~pid.ok \/ pid.val <= 0 THEN Unsampled(st, name, status, 0)
        ELSE Sampled(st, name, status, pid.val, aux.s)

\* part_002:103-148: the loop body of getLinuxServices for one line of systemctl;
\* aux holds the answer of `systemctl show --property=MainPID`
LinuxServiceLine(st, rawLine, aux) ==
    LET line   == TrimSpace(rawLine)
        fields == Fields(line)
        name   == ReplaceAll(fields[1], ".service", "")
        status == fields[3]
        pidStr == TrimSpace(aux.pidOut)
        p      == ParseInt(pidStr)
    IN  IF line = "" \/ Len(fields) < 4 THEN st
        ELSE IF ~aux.pidErr /\ pidStr # "0" /\ pidStr # "" /\ p.ok /\ p.val > 0
             THEN Sampled(st, name, status, p.val, aux.s)
             ELSE Unsampled(st, name, status, 0)

\* part_002:201-220: the loop body of getWindowsServices for one decoded object
WindowsServiceObj(st, obj, aux) ==
    IF obj.PID > 0 THEN Sampled(st, obj.Name, ToLower(obj.Status), obj.PID, aux.s)
    ELSE Unsampled(st, obj.Name, ToLower(obj.Status), obj.PID)

\* the loops over the lines or objects, from position i on
RECURSIVE ServiceLoop(_, _, _, _, _)
ServiceLoop(variant, items, aux, i, st) ==
    IF i > Len(items) THEN st
    ELSE ServiceLoop(variant, items, aux, i + 1,
            CASE variant = "mac"     -> MacServiceLine(st, items[i], aux[i])
              [] variant = "linux"   -> LinuxServiceLine(st, items[i], aux[i])
              [] variant = "windows" -> WindowsServiceObj(st, items[i], aux[i]))

NoServices == [services |-> <<>>, calls |-> <<>>]

\* part_002:37-88: launchctl prints a header line, the loop starts after it
MacServices(output, aux) ==
    ServiceLoop("mac", Split(TrimSpace(output), "\n"), aux, 2, NoServices)

\* part_002:99-151
LinuxServices(output, aux) ==
    ServiceLoop("linux", Split(TrimSpace(output), "\n"), aux, 1, NoServices)

\* the JSON document PowerShell prints: an array of objects, one object, or
\* text that is neither; the PID member of an object is a number, is absent
\* or has another type
JsonPids == {<<"number", 4000>>, <<"number", 0>>, <<"absent", 0>>, <<"string", 0>>}
JsonObjects == { [Name |-> "Spooler", Status |-> "Running", pid |-> x] : x \in JsonPids }

\* json.Unmarshal of one object into the struct of part_002:176-180: an absent
\* member leaves the zero value, a member of another type is an error
DecodeObject(o) ==
    [err |-> o.pid[1] = "string",
     obj |-> [Name |-> o.Name, Status |-> o.Status,
              PID |-> IF o.pid[1] = "number" THEN o.pid[2] ELSE 0]]

\* part_002:183: json.Unmarshal(output, &serviceObjs)
UnmarshalSlice(doc) ==
    IF doc.t = "array"
    THEN [err  |-> \E i \in 1..Len(doc.elems) : DecodeObject(doc.elems[i]).err,
          objs |-> [i \in 1..Len(doc.elems) |-> DecodeObject(doc.elems[i]).obj]]
    ELSE [err |-> TRUE, objs |-> <<>>]

\* part_002:190: json.Unmarshal(output, &serviceObj)
UnmarshalStruct(doc) ==
    IF doc.t = "object"
    THEN [err |-> DecodeObject(doc.obj).err, objs |-> <<DecodeObject(doc.obj).obj>>]
    ELSE [err |-> TRUE, objs |-> <<>>]

\* mutant: the output is not decoded and an empty list is returned
WindowsServices_Undecoded(doc, aux) == [err |-> "", st |-> NoServices]

\* part_002:174-222: st is the list and the calls, err the error returned
WindowsServices(doc, aux) ==
    LET a == UnmarshalSlice(doc)
        o == UnmarshalStruct(doc)
    IN  IF a.err /\ o.err THEN [err |-> "json: error", st |-> NoServices]
        ELSE [err |-> "",
              st  |-> ServiceLoop("windows", IF a.err THEN o.objs ELSE a.objs, aux, 1,
                                  NoServices)]

\* the answers a service sample may get
ServiceSamples ==
    { NotFoundSample,
      [NotFoundSample EXCEPT !.newErr = FALSE, !.memInfoErr = TRUE],
      [NotFoundSample EXCEPT !.newErr = FALSE, !.cpu = 50000, !.rss = 1536],
      [NotFoundSample EXCEPT !.newErr = FALSE, !.cpuErr = TRUE, !.memPctErr = TRUE,
                             !.memInfoNil = TRUE] }

\* the helper answers that go with one line or object: the answer of
\* `systemctl show` (Linux only) and of the resource sample
NoAux == [pidErr |-> TRUE, pidOut |-> "", s |-> NotFoundSample]
SampleAux == { [pidErr |-> FALSE, pidOut |-> "4000\n", s |-> x] : x \in ServiceSamples }
PidAux == { [NoAux EXCEPT !.pidErr = FALSE, !.pidOut = o] : o \in {"0", "", "abc", "-5"} }

\* what the listing command may report for one service, with the helper answers
ServiceCases(variant) ==
    CASE variant = "mac" ->
            { [item |-> "4000\t0\tcom.app.sync", aux |-> a] : a \in SampleAux }
            \cup { [item |-> l, aux |-> NoAux] :
                     l \in {"-\t0\tcom.app.idle", "0\t0\tcom.app.zero", "-5\t1\tcom.app.neg",
                            "4000\t0", ""} }
      [] variant = "linux" ->
            { [item |-> "nginx.service loaded active running Web server", aux |-> a] :
                a \in SampleAux \cup PidAux \cup {NoAux} }
            \cup { [item |-> l, aux |-> NoAux] : l \in {"nginx.service loaded", ""} }
      [] variant = "windows" ->
            { [item |-> o, aux |-> a] :
                o \in {x \in JsonObjects : x.pid = <<"number", 4000>>}, a \in SampleAux }
            \cup { [item |-> o, aux |-> NoAux] :
                     o \in {x \in JsonObjects : x.pid # <<"number", 4000>>} }

\* up to MaxServices reported services
ServiceReports(variant) ==
    UNION { [1..n -> ServiceCases(variant)] : n \in 0..MaxServices }

ItemsOf(report) == [i \in 1..Len(report) |-> report[i].item]
AuxOf(report) == [i \in 1..Len(report) |-> report[i].aux]

LaunchctlHeader == "PID\tStatus\tLabel"

\* part_002:31, 93, 161: the listing command of each variant
ServiceCommandOf(os) ==
    CASE os = "darwin"  -> "launchctl"
      [] os = "linux"   -> "systemctl"
      [] os = "windows" -> "powershell"
      [] OTHER          -> ""

(***************************************************************************)
(* HTTP surface: handlePorts, handleResource                               *)
(***************************************************************************)
\* strconv.ParseUint(s, 10, 32): digits only, no sign; the query values of the
\* model stay below 2^31
ParseUint(s) ==
    LET syntaxOk == s # "" /\ \A i \in 1..Len(s) : IsDigit(CharAt(s, i))
    IN  IF syntaxOk /\ DigitsValue(s, 0) >= 0
        THEN [ok |-> TRUE, val |-> DigitsValue(s, 0)]
        ELSE [ok |-> FALSE, val |-> 0]

\* r.URL.Query().Get("port") and Get("pid"): "" when the parameter is absent
PortParams == {"", "80", "abc"}
PidParams == {"", "7", "x7"}

\* the raw connections the enumeration may return, with the lookup of each
RawEntries ==
    { [conn |-> conn, lk |-> lk] :
        conn \in RawConns, lk \in Lookups }
RawTables ==
    UNION { [1..n -> { e \in RawEntries :
                         (Skipped(e.conn) \/ e.conn.Pid <= 0) => e.lk = NoLookup }] :
              n \in 0..MaxHttpConns }

\* port.go:24-72: the loop over the raw connections
RECURSIVE CollectPorts(_, _, _)
CollectPorts(table, i, m) ==
    IF i > Len(table) THEN m
    ELSE CollectPorts(table, i + 1, PortLoopBody(m, table[i].conn, table[i].lk))

(***************************************************************************)
(* Initial state: main has parsed its flags and selected one mode.         *)
(***************************************************************************)
Modes == {"ports", "processes", "windows", "server", "resource", "services", "http", "format"}
Platforms == {"darwin", "linux", "windows", "freebsd"}

InitMode(m) ==
    /\ op = m
    /\ pc = "start"
    /\ cancelled = FALSE
    /\ connections = <<>>
    /\ portMap = EmptyMap
    /\ allPorts = <<>>
    /\ filter = NoFilter
    /\ procs = <<>>
    /\ userProcs = <<>>
    /\ outputs = <<>>
    /\ sigPc = "wait"
    /\ server = "nil"
    /\ listening = FALSE
    /\ inShutdown = FALSE
    /\ inflight = {}
    /\ completed = {}
    /\ signalled = FALSE
    /\ atSignal = {}
    /\ exited = -1
    /\ sample = <<>>
    /\ query = [path |-> "", port |-> "", pid |-> ""]
    /\ httpStatus = 0
    /\ result = <<>>
    /\ err = ""

\* the port listing and the serving mode do not read runtime.GOOS
InitPorts == InitMode("ports") /\ goos = "linux"
InitProcs == InitMode("processes") /\ goos \in Platforms
InitWindows == InitMode("windows") /\ goos \in Platforms
InitServer == InitMode("server") /\ goos = "linux"
InitResource == InitMode("resource") /\ goos = "linux"
InitServices == InitMode("services") /\ goos \in Platforms
InitHttp == InitMode("http") /\ goos = "linux"
InitFormat == InitMode("format") /\ goos = "linux"
Init ==
    \/ InitPorts \/ InitProcs \/ InitWindows \/ InitServer \/ InitResource \/ InitServices
    \/ InitHttp \/ InitFormat

(***************************************************************************)
(* ctx cancellation: may arrive at any moment while the operation runs.    *)
(***************************************************************************)
Running == pc \notin {"done", "exit"}

\* the caller cancels the context while GetUserApplications runs
Cancel ==
    /\ op = "processes" /\ Running
    /\ ~cancelled
    /\ cancelled' = TRUE
    /\ UNCHANGED <<op, goos, pc, portVars, procVars, winVars, srvVars, resVars, httpVars, result, err>>

(***************************************************************************)
(* Port listing: GetOpenPorts / GetPortInfoByPort / GetPortsByPID          *)
(***************************************************************************)
\* port.go:17-20: net.ConnectionsWithContext fails: return nil, err
PortsConnectionsFail ==
    /\ op = "ports" /\ pc = "start"
    /\ \E f \in PortFilters : filter' = f
    /\ result' = <<>>
    /\ err' = "connections: error"
    /\ outputs' = Append(outputs, [cmd |-> "connections", ok |-> FALSE, out |-> "", n |-> 0])
    /\ pc' = "done"
    /\ UNCHANGED <<op, goos, cancelled, connections, portMap, allPorts, procVars, srvVars, resVars, httpVars>>

\* port.go:17-22: the enumeration succeeds, portMap is made
PortsConnectionsOk ==
    /\ op = "ports" /\ pc = "start"
    /\ portMap' = EmptyMap
    /\ outputs' = Append(outputs, [cmd |-> "connections", ok |-> TRUE, out |-> "", n |-> 0])
    /\ pc' = "loop"
    /\ UNCHANGED <<op, goos, cancelled, connections, allPorts, filter, procVars, srvVars, resVars, httpVars, result, err>>

\* port.go:24-72: one iteration over the next raw connection
PortsIterate ==
    /\ op = "ports" /\ pc = "loop"
    /\ Len(connections) < MaxConns
    /\ \E conn \in RawConns :
       \E lk \in (IF Skipped(conn) \/ conn.Pid <= 0 THEN {NoLookup} ELSE Lookups) :
          /\ connections' = Append(connections, [conn |-> conn, lk |-> lk])
          /\ portMap' = PortLoopBody(portMap, conn, lk)
    /\ UNCHANGED <<op, goos, pc, cancelled, allPorts, filter, procVars, winVars, srvVars, resVars, httpVars, result, err>>

\* port.go:74-88 then port.go:108-115 / 125-132: the list is exhausted; collect
\* the map's values, sort them, return; the caller's filter runs on that list.
\* The filter argument is not read before this point, so it is drawn here.
PortsReturn ==
    /\ op = "ports" /\ pc = "loop"
    /\ \E o \in MapOrders(portMap), f \in PortFilters :
          /\ allPorts' = SortPorts(MapValues(portMap, o))
          /\ filter' = f
          /\ result' = ApplyFilter(allPorts', f)
    /\ err' = ""
    /\ pc' = "done"
    /\ UNCHANGED <<op, goos, cancelled, connections, portMap, procVars, winVars, srvVars, resVars, httpVars>>

NextPorts == PortsConnectionsFail \/ PortsConnectionsOk \/ PortsIterate \/ PortsReturn

(***************************************************************************)
(* Process listing: GetUserApplications                                    *)
(***************************************************************************)
\* part_001:15-18: process.ProcessesWithContext fails: return nil, err
ProcsTableFail ==
    /\ op = "processes" /\ pc = "start"
    /\ result' = <<>>
    /\ err' = "processes: error"
    /\ outputs' = Append(outputs, [cmd |-> "processes", ok |-> FALSE, out |-> "", n |-> 0])
    /\ pc' = "done"
    /\ UNCHANGED <<op, goos, cancelled, portVars, procVars, srvVars, resVars, httpVars>>

\* part_001:15-21: the process table is read
ProcsTableOk ==
    /\ op = "processes" /\ pc = "start"
    /\ userProcs' = <<>>
    /\ outputs' = Append(outputs, [cmd |-> "processes", ok |-> TRUE, out |-> "", n |-> 0])
    /\ pc' = "loop"
    /\ UNCHANGED <<op, goos, cancelled, portVars, procs, srvVars, resVars, httpVars, result, err>>

\* part_001:23-75: one iteration over the next process of the table
ProcsIterate ==
    /\ op = "processes" /\ pc = "loop"
    /\ Len(procs) < MaxProcs
    /\ \E pid \in ProcPids \ { procs[i].Pid : i \in DOMAIN procs }, a \in ProcAttrs :
          LET p == [Pid |-> pid] @@ a
          IN  /\ procs' = Append(procs, p)
              /\ userProcs' = ProcLoopBody(userProcs, p, goos)
    /\ UNCHANGED <<op, goos, pc, cancelled, portVars, winVars, srvVars, resVars, httpVars, result, err>>

\* part_001:77-82: the table is exhausted; sort and return
ProcsReturn ==
    /\ op = "processes" /\ pc = "loop"
    /\ result' = SortByPID(userProcs)
    /\ err' = ""
    /\ pc' = "done"
    /\ UNCHANGED <<op, goos, cancelled, portVars, procVars, winVars, srvVars, resVars, httpVars>>

NextProcs == ProcsTableFail \/ ProcsTableOk \/ ProcsIterate \/ ProcsReturn \/ Cancel

(***************************************************************************)
(* Window listing: GetOpenWindows                                          *)
(***************************************************************************)
\* window.go:22-23: no variant for this platform
WinUnsupported ==
    /\ op = "windows" /\ pc = "start"
    /\ VariantOf(goos) = "none"
    /\ result' = <<>>
    /\ err' = ""
    /\ pc' = "done"
    /\ UNCHANGED <<op, goos, cancelled, portVars, procVars, winVars, srvVars, resVars, httpVars>>

\* the listing command fails and the failure is not reported
WinCommandFail_Swallowed ==
    /\ op = "windows" /\ pc \in {"start", "alt"}
    /\ VariantOf(goos) # "none"
    /\ outputs' = Append(outputs, [cmd |-> CommandOf(goos, pc), ok |-> FALSE,
                                   out |-> "", n |-> 0])
    /\ result' = <<>>
    /\ err' = ""
    /\ pc' = "done"
    /\ UNCHANGED <<op, goos, cancelled, portVars, procVars, srvVars, resVars, httpVars>>

\* window.go:53-57, 138-142, 180-184, 219-223: the listing command fails
WinCommandFail ==
    /\ op = "windows" /\ pc \in {"start", "alt"}
    /\ VariantOf(goos) # "none"
    /\ outputs' = Append(outputs, [cmd |-> CommandOf(goos, pc), ok |-> FALSE,
                                   out |-> "", n |-> 0])
    /\ result' = <<>>
    /\ err' = "exec: error"
    /\ pc' = "done"
    /\ UNCHANGED <<op, goos, cancelled, portVars, procVars, srvVars, resVars, httpVars>>

\* the primary parse returns its list even when it is empty
WinMacPrimary_NoFallback ==
    /\ op = "windows" /\ pc = "start"
    /\ VariantOf(goos) = "mac"
    /\ \E output \in CommandOutputs("mac") :
       \E aux \in AuxFor("mac", output) :
          LET windows == ParseWindows("mac", output, aux)
          IN  /\ outputs' = Append(outputs, [cmd |-> CommandOf(goos, pc), ok |-> TRUE,
                                                 out |-> output, n |-> Len(windows)])
              /\ pc' = "done" /\ result' = windows /\ err' = ""
    /\ UNCHANGED <<op, goos, cancelled, portVars, procVars, srvVars, resVars, httpVars>>

\* window.go:53-110: getMacOSWindows, the command succeeded
WinMacPrimary ==
    /\ op = "windows" /\ pc = "start"
    /\ VariantOf(goos) = "mac"
    /\ \E output \in CommandOutputs("mac") :
       \E aux \in AuxFor("mac", output) :
          LET windows == ParseWindows("mac", output, aux)
          IN  /\ outputs' = Append(outputs, [cmd |-> CommandOf(goos, pc), ok |-> TRUE,
                                                 out |-> output, n |-> Len(windows)])
              /\ IF Len(windows) = 0
                 THEN pc' = "alt" /\ UNCHANGED <<result, err>>
                 ELSE pc' = "done" /\ result' = windows /\ err' = ""
    /\ UNCHANGED <<op, goos, cancelled, portVars, procVars, srvVars, resVars, httpVars>>

\* window.go:138-175: getMacOSWindowsAlt, the command succeeded
WinMacAlt ==
    /\ op = "windows" /\ pc = "alt"
    /\ \E output \in CommandOutputs("macAlt") :
       \E aux \in AuxFor("macAlt", output) :
          /\ outputs' = Append(outputs, [cmd |-> CommandOf(goos, pc), ok |-> TRUE, out |-> output,
                                         n |-> Len(ParseWindows("macAlt", output, aux))])
          /\ result' = ParseWindows("macAlt", output, aux)
    /\ err' = ""
    /\ pc' = "done"
    /\ UNCHANGED <<op, goos, cancelled, portVars, procVars, srvVars, resVars, httpVars>>

\* window.go:180-208: getLinuxWindows, the command succeeded
WinLinux ==
    /\ op = "windows" /\ pc = "start"
    /\ VariantOf(goos) = "linux"
    /\ \E output \in CommandOutputs("linux") :
       \E aux \in AuxFor("linux", output) :
          /\ outputs' = Append(outputs, [cmd |-> CommandOf(goos, pc), ok |-> TRUE, out |-> output,
                                         n |-> Len(ParseWindows("linux", output, aux))])
          /\ result' = ParseWindows("linux", output, aux)
    /\ err' = ""
    /\ pc' = "done"
    /\ UNCHANGED <<op, goos, cancelled, portVars, procVars, srvVars, resVars, httpVars>>

\* window.go:219-254: getWindowsWindows, the command succeeded
WinWindows ==
    /\ op = "windows" /\ pc = "start"
    /\ VariantOf(goos) = "windows"
    /\ \E output \in CommandOutputs("windows") :
       \E aux \in AuxFor("windows", output) :
          /\ outputs' = Append(outputs, [cmd |-> CommandOf(goos, pc), ok |-> TRUE, out |-> output,
                                         n |-> Len(ParseWindows("windows", output, aux))])
          /\ result' = ParseWindows("windows", output, aux)
    /\ err' = ""
    /\ pc' = "done"
    /\ UNCHANGED <<op, goos, cancelled, portVars, procVars, srvVars, resVars, httpVars>>

NextWindows ==
    WinUnsupported \/ WinCommandFail \/ WinMacPrimary \/ WinMacAlt \/ WinLinux \/ WinWindows

(***************************************************************************)
(* Serving mode: main, Server.Start, Server.Stop                           *)
(*                                                                         *)
(* pc is the main goroutine, sigPc the goroutine main starts to wait for   *)
(* the signal.  net/http as documented: Shutdown closes the listeners,     *)
(* then waits until no connection is active; once Shutdown has been called *)
(* ListenAndServe returns ErrServerClosed immediately.  os.Exit ends the   *)
(* process with whatever is still running.                                 *)
(***************************************************************************)
Reqs == 1..MaxReqs
Alive == op = "server" /\ exited = -1

\* server.go:35-48: Start registers the handlers and assigns s.server
MainAssign ==
    /\ Alive /\ pc = "start"
    /\ server' = "set"
    /\ pc' = "assigned"
    /\ UNCHANGED <<op, goos, cancelled, portVars, procVars, winVars, resVars, httpVars, sigPc, listening,
                   inShutdown, inflight, completed, signalled, atSignal, exited, result, err>>

\* server.go:51: ListenAndServe binds the port and serves, unless Shutdown was
\* already called or the port cannot be bound; then it returns an error
MainListen ==
    /\ Alive /\ pc = "assigned"
    /\ \/ /\ ~inShutdown
          /\ listening' = TRUE
          /\ pc' = "serving"
          /\ err' = err
       \/ /\ pc' = "returned"
          /\ err' = IF inShutdown THEN "http: Server closed" ELSE "listen: error"
          /\ UNCHANGED listening
    /\ UNCHANGED <<op, goos, cancelled, portVars, procVars, winVars, resVars, httpVars, sigPc, server,
                   inShutdown, inflight, completed, signalled, atSignal, exited, result>>

\* the serve loop accepts a connection and starts its handler
Accept ==
    /\ Alive /\ pc = "serving" /\ listening /\ ~inShutdown
    /\ \E r \in Reqs \ (inflight \cup completed) : inflight' = inflight \cup {r}
    /\ UNCHANGED <<op, goos, pc, cancelled, portVars, procVars, winVars, resVars, httpVars, sigPc, server,
                   listening, inShutdown, completed, signalled, atSignal, exited, result, err>>

\* server.go:62-190: a handler writes its response
Complete ==
    /\ Alive
    /\ \E r \in inflight :
          /\ inflight' = inflight \ {r}
          /\ completed' = completed \cup {r}
    /\ UNCHANGED <<op, goos, pc, cancelled, portVars, procVars, winVars, resVars, httpVars, sigPc, server,
                   listening, inShutdown, signalled, atSignal, exited, result, err>>

\* server.go:51: ListenAndServe returns ErrServerClosed once Shutdown has begun
MainServeReturns ==
    /\ Alive /\ pc = "serving" /\ inShutdown
    /\ pc' = "returned"
    /\ err' = "http: Server closed"
    /\ UNCHANGED <<op, goos, cancelled, portVars, procVars, winVars, srvVars, resVars, httpVars, result>>

\* part_000:253-256: Start returned a non-nil error: report it and os.Exit(1)
MainExit ==
    /\ Alive /\ pc = "returned"
    /\ exited' = 1
    /\ pc' = "exit"
    /\ UNCHANGED <<op, goos, cancelled, portVars, procVars, winVars, resVars, httpVars, sigPc, server, listening,
                   inShutdown, inflight, completed, signalled, atSignal, result, err>>

\* part_000:241-242: the OS delivers SIGINT or SIGTERM to sigChan
Signal ==
    /\ Alive /\ ~signalled
    /\ signalled' = TRUE
    /\ atSignal' = inflight
    /\ UNCHANGED <<op, goos, pc, cancelled, portVars, procVars, winVars, resVars, httpVars, sigPc, server, listening,
                   inShutdown, inflight, completed, exited, result, err>>

\* part_000:245-247, server.go:55-59: the goroutine receives the signal and calls
\* Stop.  Stop reads s.server without synchronisation with Start's assignment, so
\* it may still see nil after the assignment.  With a server it calls Shutdown,
\* which closes the listener; with nil it returns at once.
SigStop ==
    /\ Alive /\ sigPc = "wait" /\ signalled
    /\ \E seen \in {"nil", server} :
          IF seen = "nil"
          THEN /\ sigPc' = "stopped"
               /\ UNCHANGED <<inShutdown, listening>>
          ELSE /\ inShutdown' = TRUE
               /\ listening' = FALSE
               /\ sigPc' = "draining"
    /\ UNCHANGED <<op, goos, pc, cancelled, portVars, procVars, winVars, resVars, httpVars, server, inflight,
                   completed, signalled, atSignal, exited, result, err>>

\* server.go:57: Shutdown returns when no connection is active any more
SigDrained ==
    /\ Alive /\ sigPc = "draining"
    /\ inflight = {}
    /\ sigPc' = "stopped"
    /\ UNCHANGED <<op, goos, pc, cancelled, portVars, procVars, winVars, resVars, httpVars, server, listening,
                   inShutdown, inflight, completed, signalled, atSignal, exited, result, err>>

\* part_000:250: os.Exit(0)
SigExit ==
    /\ Alive /\ sigPc = "stopped"
    /\ exited' = 0
    /\ sigPc' = "exit"
    /\ UNCHANGED <<op, goos, pc, cancelled, portVars, procVars, winVars, resVars, httpVars, server, listening,
                   inShutdown, inflight, completed, signalled, atSignal, result, err>>

NextServer ==
    \/ MainAssign \/ MainListen \/ Accept \/ Complete \/ MainServeReturns \/ MainExit
    \/ Signal \/ SigStop \/ SigDrained \/ SigExit

(***************************************************************************)
(* Resource usage of one process: GetProcessResourceUsage                  *)
(***************************************************************************)
\* one call for pid whose fetches are answered by s
ResCall(pid, s) ==
    LET r == GetProcessResourceUsage(pid, s)
    IN  /\ sample' = Append(sample, [pid |-> pid, s |-> s])
        /\ result' = r.usage
        /\ err' = r.err
        /\ pc' = "done"
        /\ UNCHANGED <<op, goos, cancelled, portVars, procVars, winVars, srvVars, httpVars>>

\* part_001:153-156: the pid does not exist
ResNotFound ==
    /\ op = "resource" /\ pc = "start"
    /\ \E pid \in ResPids : ResCall(pid, NotFoundSample)

\* part_001:158-165: the handle is resolved, the memory info cannot be read
ResMemInfoFail ==
    /\ op = "resource" /\ pc = "start"
    /\ \E pid \in ResPids : \E s \in NoMemInfoSamples : ResCall(pid, s)

\* part_001:158-191: the handle is resolved and the memory info is read
ResOk ==
    /\ op = "resource" /\ pc = "start"
    /\ \E pid \in ResPids : \E s \in FullSamples : ResCall(pid, s)

NextResource == ResNotFound \/ ResMemInfoFail \/ ResOk

(***************************************************************************)
(* Service listing: GetServices                                            *)
(***************************************************************************)
\* a variant returns: the list, and the sampling calls it made
SvcReturn(cmdOut, e, st) ==
    /\ outputs' = Append(outputs, [cmd |-> ServiceCommandOf(goos), ok |-> TRUE,
                                   out |-> cmdOut, n |-> Len(st.services)])
    /\ sample' = sample \o st.calls
    /\ result' = st.services
    /\ err' = e
    /\ pc' = "done"
    /\ UNCHANGED <<op, goos, cancelled, portVars, procVars, srvVars, httpVars>>

\* part_002:24-25: no variant for this platform
SvcUnsupported ==
    /\ op = "services" /\ pc = "start"
    /\ ServiceCommandOf(goos) = ""
    /\ result' = <<>>
    /\ err' = ""
    /\ pc' = "done"
    /\ UNCHANGED <<op, goos, cancelled, portVars, procVars, winVars, srvVars, resVars, httpVars>>

\* part_002:32-35, 94-97, 169-172: the listing command fails
SvcCommandFail ==
    /\ op = "services" /\ pc = "start"
    /\ ServiceCommandOf(goos) # ""
    /\ outputs' = Append(outputs, [cmd |-> ServiceCommandOf(goos), ok |-> FALSE,
                                   out |-> "", n |-> 0])
    /\ result' = <<>>
    /\ err' = "exec: error"
    /\ pc' = "done"
    /\ UNCHANGED <<op, goos, cancelled, portVars, procVars, srvVars, resVars, httpVars>>

\* part_002:30-89: getMacOSServices, the command succeeded
SvcMac ==
    /\ op = "services" /\ pc = "start" /\ goos = "darwin"
    /\ \E report \in ServiceReports("mac") :
          LET output == Join(<<LaunchctlHeader>> \o ItemsOf(report), "\n")
          IN  SvcReturn(output, "", MacServices(output, <<NoAux>> \o AuxOf(report)))

\* part_002:92-152: getLinuxServices, the command succeeded
SvcLinux ==
    /\ op = "services" /\ pc = "start" /\ goos = "linux"
    /\ \E report \in ServiceReports("linux") :
          LET output == Join(ItemsOf(report), "\n")
          IN  SvcReturn(output, "", LinuxServices(output, AuxOf(report)))

\* part_002:155-223: getWindowsServices, the command succeeded
SvcWindows ==
    /\ op = "services" /\ pc = "start" /\ goos = "windows"
    /\ \E doc \in { [t |-> "array", elems |-> ItemsOf(r), aux |-> AuxOf(r)] :
                      r \in ServiceReports("windows") }
                  \cup { [t |-> "object", obj |-> c.item, aux |-> <<c.aux>>] :
                           c \in ServiceCases("windows") }
                  \cup { [t |-> "other", aux |-> <<>>] } :
          LET r == WindowsServices(doc, doc.aux)
          IN  SvcReturn(doc, r.err, r.st)

NextServices == SvcUnsupported \/ SvcCommandFail \/ SvcMac \/ SvcLinux \/ SvcWindows

(***************************************************************************)
(* HTTP surface: one request to /mcp/v1/ports or /mcp/v1/resource          *)
(***************************************************************************)
\* server.go:199-205: sendError writes status 500 and the {error} body
SendError(q, msg) ==
    /\ query' = q
    /\ httpStatus' = 500
    /\ result' = <<>>
    /\ err' = msg
    /\ pc' = "done"

\* server.go:192-197: sendJSON writes status 200 and the body
SendJSON(q, records) ==
    /\ query' = q
    /\ httpStatus' = 200
    /\ result' = records
    /\ err' = ""
    /\ pc' = "done"

\* server.go:114-136: the port listing is called with filter f and answered
PortsAnswer(q, f) ==
    \/ /\ outputs' = Append(outputs, [cmd |-> "connections", ok |-> FALSE, out |-> "", n |-> 0])
       /\ SendError(q, "connections: error")
       /\ UNCHANGED portVars
    \/ \E table \in RawTables :
       \E o \in MapOrders(CollectPorts(table, 1, EmptyMap)) :
          /\ outputs' = Append(outputs, [cmd |-> "connections", ok |-> TRUE, out |-> "", n |-> 0])
          /\ connections' = table
          /\ portMap' = CollectPorts(table, 1, EmptyMap)
          /\ allPorts' = SortPorts(MapValues(portMap', o))
          /\ filter' = f
          /\ SendJSON(q, ApplyFilter(allPorts', f))

\* server.go:98-137
HandlePorts ==
    /\ op = "http" /\ pc = "start"
    /\ \E portParam \in PortParams, pidParam \in PidParams :
          LET q == [path |-> "/mcp/v1/ports", port |-> portParam, pid |-> pidParam]
          IN  IF portParam # ""
              THEN IF ~ParseUint(portParam).ok
                   THEN SendError(q, "invalid port number") /\ UNCHANGED <<portVars, outputs>>
                   ELSE PortsAnswer(q, [kind |-> "port", arg |-> ParseUint(portParam).val])
              ELSE IF pidParam # ""
              THEN IF ~ParseInt(pidParam).ok
                   THEN SendError(q, "invalid PID") /\ UNCHANGED <<portVars, outputs>>
                   ELSE PortsAnswer(q, [kind |-> "pid", arg |-> ParseInt(pidParam).val])
              ELSE PortsAnswer(q, NoFilter)
    /\ UNCHANGED <<op, goos, cancelled, procVars, srvVars, resVars>>

\* server.go:139-166
HandleResource ==
    /\ op = "http" /\ pc = "start"
    /\ \E pidParam \in PidParams :
          LET q == [path |-> "/mcp/v1/resource", port |-> "", pid |-> pidParam]
          IN  IF pidParam = ""
              THEN SendError(q, "pid parameter is required") /\ UNCHANGED sample
              ELSE IF ~ParseInt(pidParam).ok
              THEN SendError(q, "invalid PID") /\ UNCHANGED sample
              ELSE \E s \in ServiceSamples :
                      LET r == GetProcessResourceUsage(ParseInt(pidParam).val, s)
                      IN  /\ sample' = Append(sample, [pid |-> ParseInt(pidParam).val, s |-> s])
                          /\ IF r.err # "" THEN SendError(q, r.err) ELSE SendJSON(q, r.usage)
    /\ UNCHANGED <<op, goos, cancelled, portVars, procVars, winVars, srvVars>>

NextHttp == HandlePorts \/ HandleResource

(***************************************************************************)
(* Specifications                                                          *)
(***************************************************************************)
(***************************************************************************)
(* internal/utils/format.go: one call of a formatting function             *)
(***************************************************************************)
FormatCall(fn, arg, out) ==
    /\ sample' = Append(sample, [fn |-> fn, arg |-> arg])
    /\ result' = <<out>>
    /\ err' = ""
    /\ pc' = "done"
    /\ UNCHANGED <<op, goos, cancelled, portVars, procVars, winVars, srvVars, httpVars>>

\* format.go:23-31
FormatCPUCall ==
    /\ op = "format" /\ pc = "start"
    /\ \E cpu \in CpuInputs : FormatCall("FormatCPU", cpu, FormatCPU(cpu))

\* format.go:9-20
FormatBytesCall ==
    /\ op = "format" /\ pc = "start"
    /\ \E bytes \in ByteInputs : FormatCall("FormatBytes", bytes, FormatBytes(bytes))

NextFormat == FormatCPUCall \/ FormatBytesCall

Next ==
    \/ NextPorts \/ NextProcs \/ NextWindows \/ NextServer \/ NextResource \/ NextServices
    \/ NextHttp \/ NextFormat

SpecPorts == InitPorts /\ [][NextPorts]_vars
SpecProcs == InitProcs /\ [][NextProcs]_vars
SpecWindows == InitWindows /\ [][NextWindows]_vars
SpecServer == InitServer /\ [][NextServer]_vars
SpecResource == InitResource /\ [][NextResource]_vars
SpecServices == InitServices /\ [][NextServices]_vars
SpecHttp == InitHttp /\ [][NextHttp]_vars
SpecFormat == InitFormat /\ [][NextFormat]_vars
InitListing == InitWindows \/ InitServices
NextListing == NextWindows \/ NextServices
SpecListing == InitListing /\ [][NextListing]_vars
Spec == Init /\ [][Next]_vars

(***************************************************************************)
(* Port listing: properties                                                *)
(***************************************************************************)
PortsDone == op = "ports" /\ pc = "done" /\ err = ""

Range(s) == { s[i] : i \in DOMAIN s }

\* the raw entries that passed both `continue`s, as the PortInfo each one builds,
\* in collection order
Candidates ==
    LET kept == SelectSeq(connections,
                          LAMBDA h : h.conn.Status = "LISTEN" /\ h.conn.Port # 0)
    IN  [i \in DOMAIN kept |-> NewPortInfo(kept[i].conn, kept[i].lk)]

SameKey(a, b) == a.LocalIP = b.LocalIP /\ a.Port = b.Port

\* C1: every record of the map, of the GetOpenPorts listing and of the filtered
\* listing has State "LISTEN" and was built from a raw connection whose status is
\* "LISTEN"; a raw connection in another state contributes nothing.
C1_OnlyListen ==
    op = "ports" =>
        LET built == [i \in DOMAIN connections |->
                        NewPortInfo(connections[i].conn, connections[i].lk)]
        IN  \A r \in Range(allPorts) \cup Range(result) \cup { portMap[k] : k \in DOMAIN portMap } :
                /\ r.State = "LISTEN"
                /\ \E i \in DOMAIN connections :
                      /\ connections[i].conn.Status = "LISTEN"
                      /\ r = built[i]

\* C1 witness: the OS returned a non-listening connection on an address that also
\* has a listening one, and the listing was returned
C1_Witness ==
    /\ PortsDone
    /\ allPorts # <<>>
    /\ \E i, j \in DOMAIN connections :
          /\ connections[i].conn.Status # "LISTEN"
          /\ connections[j].conn.Status = "LISTEN"
          /\ connections[i].conn.IP = connections[j].conn.IP
          /\ connections[i].conn.Port = connections[j].conn.Port

\* the record the tie-break of the claim selects among the candidates cands of
\* r's key
FirstOfKey(cands, r) ==
    LET mine  == { i \in DOMAIN cands : SameKey(cands[i], r) }
        named == { i \in mine : cands[i].Name # "" }
        first(S) == CHOOSE i \in S : \A j \in S : i <= j
    IN  IF named # {} THEN cands[first(named)] ELSE cands[first(mine)]

\* C2: the GetOpenPorts listing holds exactly one record per (localAddress,
\* portNumber) among the listening entries: the first entry of that key with a
\* non-empty process name if there is one, otherwise the first entry of that key.
C2_Dedup ==
    PortsDone =>
        LET cands == Candidates
        IN  /\ \A i, j \in DOMAIN allPorts : SameKey(allPorts[i], allPorts[j]) => i = j
            /\ \A c \in Range(cands) :
                  \E i \in DOMAIN allPorts :
                      SameKey(allPorts[i], c) /\ allPorts[i] = FirstOfKey(cands, c)
            /\ \A r \in Range(allPorts) : r \in Range(cands)

\* C2 witness: three listening entries on one key, the first without a name and the
\* next two named but different; the second one survives
C2_Witness ==
    /\ PortsDone
    /\ Len(Candidates) = 3
    /\ \A i \in 1..3 : SameKey(Candidates[i], Candidates[1])
    /\ Candidates[1].Name = "" /\ Candidates[2].Name # "" /\ Candidates[3].Name # ""
    /\ Candidates[2] # Candidates[3]
    /\ allPorts = <<Candidates[2]>>

\* the indices of the unfiltered listing that the requested filter selects
Matching ==
    { k \in DOMAIN allPorts :
        \/ filter.kind = "port" /\ allPorts[k].Port = filter.arg
        \/ filter.kind = "pid" /\ allPorts[k].PID = filter.arg }

\* C3: the filtered listing is the unfiltered listing of the same call restricted
\* to the records with the requested port (or pid), in the same relative order:
\* its i-th record is the i-th matching record of the unfiltered listing.
C3_FilterAfter ==
    (PortsDone /\ filter.kind # "none") =>
        /\ Len(result) = Cardinality(Matching)
        /\ \A i \in DOMAIN result :
              \E k \in Matching :
                  /\ Cardinality({ j \in Matching : j <= k }) = i
                  /\ result[i] = allPorts[k]

\* C3 witness: a port filter that keeps two records of a three-record listing
C3_Witness ==
    /\ PortsDone
    /\ filter.kind = "port"
    /\ Len(allPorts) = 3
    /\ Len(result) = 2
    /\ result[1] # result[2]

(***************************************************************************)
(* Process listing: properties                                             *)
(***************************************************************************)
ProcsDone == op = "processes" /\ pc = "done" /\ err = ""

Listed(pid) == \E i \in DOMAIN result : result[i].PID = pid

\* the record of process pid in the result
RecordOf(pid) == result[CHOOSE i \in DOMAIN result : result[i].PID = pid]

\* s, in lower case, starts with one of the elements of list (a list already in
\* lower case)
StartsWithAnyFold(s, list) ==
    LET folded == ToLower(s)
    IN  \E i \in DOMAIN list : HasPrefix(folded, list[i])

\* s, in lower case, equals one of the elements of list (a list already in
\* lower case)
EqualsAnyFold(s, list) ==
    LET folded == ToLower(s)
    IN  \E i \in DOMAIN list : folded = list[i]

\* the system prefixes and the system accounts of each platform, in lower case
FoldedPrefixes ==
    [os \in Platforms |->
        [i \in DOMAIN getSystemPrefixes(os) |-> ToLower(getSystemPrefixes(os)[i])]]
FoldedUsers ==
    [os \in Platforms |->
        [i \in DOMAIN getSystemUsers(os) |-> ToLower(getSystemUsers(os)[i])]]

\* C4: a process whose name and executable path are fetched is in the result iff
\* its name starts with no system prefix of the platform, its user (blank when
\* it could not be fetched) is no system account of the platform, letter case
\* ignored in both, and its user is not empty.  From the table PID 100 (root,
\* systemd), PID 4000 (alice, Chrome, /usr/bin/chrome) only PID 4000 is listed.
C4_UserAppFilter ==
    ProcsDone =>
        /\ \A i \in DOMAIN procs :
              LET p == procs[i]
              IN  (~p.nameErr /\ ~p.exeErr) =>
                     (Listed(p.Pid) <=>
                        /\ ~StartsWithAnyFold(p.name, FoldedPrefixes[goos])
                        /\ ~EqualsAnyFold(FetchedUser(p), FoldedUsers[goos])
                        /\ FetchedUser(p) # "")
        /\ \A i \in DOMAIN result : \E j \in DOMAIN procs : procs[j].Pid = result[i].PID
        /\ ( /\ Len(procs) = 2
             /\ \E i \in 1..2 : procs[i].Pid = 100 /\ procs[i].name = "systemd"
                                /\ ~procs[i].nameErr /\ procs[i].user = "root"
             /\ \E i \in 1..2 : procs[i].Pid = 4000 /\ procs[i].name = "Chrome"
                                /\ procs[i].exe = "/usr/bin/chrome" /\ procs[i].user = "alice"
                                /\ ~procs[i].nameErr /\ ~procs[i].exeErr /\ ~procs[i].userErr )
           => (Len(result) = 1 /\ result[1].PID = 4000)

\* C4 witness: the two-process table of the scenario, on a platform where the
\* system name is matched only when letter case is ignored
C4_Witness ==
    /\ ProcsDone
    /\ goos = "windows"
    /\ Len(procs) = 2
    /\ procs[1].Pid = 100 /\ procs[1].name = "systemd" /\ procs[1].user = "root"
    /\ ~procs[1].nameErr /\ ~procs[1].exeErr /\ ~procs[1].userErr
    /\ procs[2].Pid = 4000 /\ procs[2].name = "Chrome" /\ procs[2].user = "alice"
    /\ ~procs[2].nameErr /\ ~procs[2].exeErr /\ ~procs[2].userErr
    /\ Len(result) = 1 /\ result[1].PID = 4000

\* C5: every record of the GetUserApplications result has a non-empty executable
\* path and a user that is non-empty and no system account of the platform.
C5_PathAndUser ==
    ProcsDone =>
        \A i \in DOMAIN result :
            /\ result[i].Path # ""
            /\ result[i].User # ""
            /\ ~EqualsAnyFold(result[i].User, FoldedUsers[goos])

\* the process as it would be had the status, user and start-time fetches succeeded
OptionalFetched(p) == [p EXCEPT !.userErr = FALSE, !.statusErr = FALSE, !.ctimeErr = FALSE]

BlankWhereFailed(p) ==
    /\ Listed(p.Pid)
    /\ p.statusErr => RecordOf(p.Pid).Status = ""
    /\ p.userErr => RecordOf(p.Pid).User = ""
    /\ p.ctimeErr => RecordOf(p.Pid).StartTime = ""

\* C6 as claimed: a failed fetch of name or path excludes the process; a failed
\* fetch of status, user or start time leaves the field blank and the process,
\* listed when these fetches succeed, is still listed.
C6_OptionalNeverExcludes ==
    ProcsDone =>
        \A i \in DOMAIN procs :
            LET p == procs[i]
            IN  /\ (p.nameErr \/ p.exeErr) => ~Listed(p.Pid)
                /\ (~ProcSkipped(OptionalFetched(p), goos)) => BlankWhereFailed(p)

\* C6 amended: a failed fetch of name, path or user excludes the process; a
\* failed fetch of status or start time leaves that field blank and the process,
\* listed when these fetches succeed, is still listed.
C6_StatusTimeNeverExclude ==
    ProcsDone =>
        \A i \in DOMAIN procs :
            LET p == procs[i]
            IN  /\ (p.nameErr \/ p.exeErr \/ p.userErr) => ~Listed(p.Pid)
                /\ (~p.userErr /\ ~ProcSkipped(OptionalFetched(p), goos)) => BlankWhereFailed(p)

\* C6 witness: one process listed although its status and start time could not be
\* fetched, another one dropped because its user could not be fetched
C6_Witness ==
    /\ ProcsDone
    /\ \E i \in DOMAIN procs :
          /\ procs[i].statusErr /\ procs[i].ctimeErr
          /\ Listed(procs[i].Pid)
          /\ RecordOf(procs[i].Pid).Status = ""
    /\ \E i \in DOMAIN procs :
          /\ procs[i].userErr /\ ~procs[i].nameErr /\ ~procs[i].exeErr
          /\ ~Listed(procs[i].Pid)

\* C8: when ctx is cancelled while GetUserApplications runs, the call returns no
\* records.
C8_CancelDiscards ==
    (op = "processes" /\ pc = "done" /\ cancelled) => result = <<>>

(***************************************************************************)
(* Window listing: properties                                              *)
(***************************************************************************)
WinDone == op = "windows" /\ pc = "done" /\ err = ""

\* C7: every record GetOpenWindows returns has a non-empty title and a non-empty
\* owner process name, on every platform variant.
C7_NoBlankWindow ==
    WinDone => \A i \in DOMAIN result : result[i].Title # "" /\ result[i].Process # ""

\* C17: on macOS the fallback script is run exactly when the primary script
\* succeeded and its parse produced no window; when the primary script fails its
\* error is returned, and when it yields a window its list is returned, both
\* without the fallback.
C17_FallbackIffEmpty ==
    (op = "windows" /\ goos = "darwin") =>
        /\ Len(outputs) <= 2
        /\ outputs # <<>> => outputs[1].cmd = "osascript"
        /\ Len(outputs) = 2 =>
              outputs[2].cmd = "osascript-alt" /\ outputs[1].ok /\ outputs[1].n = 0
        /\ pc = "done" =>
              /\ Len(outputs) = 2 <=> (outputs[1].ok /\ outputs[1].n = 0)
              /\ ~outputs[1].ok => (err # "" /\ result = <<>>)
              /\ (outputs[1].ok /\ outputs[1].n > 0) =>
                    (err = "" /\ Len(result) = outputs[1].n)

\* the primary parse found nothing and the fallback found a window
C17_Witness ==
    /\ op = "windows" /\ goos = "darwin" /\ pc = "done"
    /\ Len(outputs) = 2 /\ outputs[1].ok /\ outputs[1].n = 0
    /\ outputs[2].ok /\ err = "" /\ result # <<>>

(***************************************************************************)
(* Resource usage: properties                                              *)
(***************************************************************************)
ResDone == op = "resource" /\ pc = "done"

\* C11: a call for a pid that does not exist returns an error and no record, and
\* no call returns a record together with an error.
C11_NotFoundNoRecord ==
    ResDone =>
        /\ sample[1].s.newErr => (err # "" /\ result = <<>>)
        /\ err # "" => result = <<>>

C11_Witness ==
    /\ ResDone /\ sample[1].s.newErr /\ sample[1].pid = 4000
    /\ err # "" /\ result = <<>>

\* the optional sub-samples of a call, with the field each one fills
SubSamples ==
    { <<"nameErr", "Name", "">>, <<"cpuErr", "CPUPercent", 0>>,
      <<"memPctErr", "MemoryPercent", 0>>, <<"threadsErr", "Threads", 0>>,
      <<"fdsErr", "OpenFiles", 0>> }

\* C12: with the handle resolved, a failed name, CPU, memory-percent, thread or
\* open-file sample leaves its field at the zero value and the call succeeds,
\* while a failed memory-info fetch fails the call with no record.
C12_SubSampleTolerated ==
    (ResDone /\ ~sample[1].s.newErr) =>
        IF sample[1].s.memInfoErr
        THEN err # "" /\ result = <<>>
        ELSE /\ err = "" /\ Len(result) = 1
             /\ \A t \in SubSamples : sample[1].s[t[1]] => result[1][t[2]] = t[3]

\* only the open-file count fails: the record is returned with OpenFiles 0
C12_Witness ==
    /\ ResDone /\ err = "" /\ Len(result) = 1
    /\ sample[1].s.fdsErr /\ ~sample[1].s.threadsErr /\ ~sample[1].s.nameErr
    /\ ~sample[1].s.cpuErr /\ ~sample[1].s.memPctErr
    /\ result[1].OpenFiles = 0 /\ result[1].Threads = 4 /\ result[1].Name = "nginx"

\* C13: the CPUPercent of every returned record lies between 0 and 100
\* (0 and 100000 thousandths), whatever the OS reports.
C13_CpuClamped ==
    ResDone => \A i \in 1..Len(result) :
                  result[i].CPUPercent >= 0 /\ result[i].CPUPercent <= 100000

\* C18: the list GetUserApplications returns is non-decreasing in PID, and
\* holds the records collected, for every order of the process table.
C18_SortedByPid ==
    ProcsDone =>
        /\ \A i, j \in DOMAIN result : i < j => result[i].PID <= result[j].PID
        /\ Len(result) = Len(userProcs)
        /\ Range(result) = Range(userProcs)

\* the table lists pid 4000 before pid 100 and both are user applications
C18_Witness ==
    /\ ProcsDone /\ Len(procs) >= 2 /\ procs[1].Pid = 4000 /\ procs[2].Pid = 100
    /\ Len(result) >= 2 /\ result[1].PID = 100 /\ result[2].PID = 4000

\* C19: the list GetOpenPorts returns is non-decreasing in Port for every order
\* in which the map is visited, and holds exactly the records of the map, each
\* once.
C19_SortedByPort ==
    PortsDone =>
        /\ \A i, j \in DOMAIN allPorts : i < j => allPorts[i].Port <= allPorts[j].Port
        /\ Len(allPorts) = Cardinality(DOMAIN portMap)
        /\ \A k \in DOMAIN portMap :
              Cardinality({ i \in DOMAIN allPorts : allPorts[i] = portMap[k] }) = 1

\* three records on ports 80, 80 and 443
C19_Witness ==
    /\ PortsDone /\ Len(allPorts) = 3
    /\ allPorts[1].Port = 80 /\ allPorts[2].Port = 80 /\ allPorts[3].Port = 443
    /\ allPorts[1] # allPorts[2]

\* the listening entries with a local port, as the enumeration returned them
ListenEntries == SelectSeq(connections, LAMBDA h : h.conn.Status = "LISTEN" /\ h.conn.Port # 0)

\* the process name / executable path of entry h could not be resolved
NameUnresolved(h) == h.conn.Pid <= 0 \/ h.lk.newErr \/ h.lk.nameErr
PathUnresolved(h) == h.conn.Pid <= 0 \/ h.lk.newErr \/ h.lk.exeErr

\* record r was built from entry h
BuiltFrom(r, h) ==
    /\ r.LocalIP = h.conn.IP /\ r.Port = h.conn.Port /\ r.PID = h.conn.Pid
    /\ (r.Name = "") = NameUnresolved(h)
    /\ (r.Path = "") = PathUnresolved(h)

\* C21: once the enumeration has succeeded the call returns no error whatever
\* the per-connection lookups did; every listening entry with a local port has
\* a record of its address and port in the list GetOpenPorts returns, also when
\* its lookup failed; and every record is built from one listening entry, its
\* name blank exactly when that entry's name was not resolved and its path blank
\* exactly when that entry's path was not resolved.
C21_LookupFailureTolerated ==
    (op = "ports" /\ pc = "done" /\ outputs # <<>> /\ outputs[1].ok) =>
        /\ err = ""
        /\ \A i \in DOMAIN ListenEntries :
              \E k \in DOMAIN allPorts :
                  /\ allPorts[k].LocalIP = ListenEntries[i].conn.IP
                  /\ allPorts[k].Port = ListenEntries[i].conn.Port
        /\ \A k \in DOMAIN allPorts :
              \E i \in DOMAIN ListenEntries : BuiltFrom(allPorts[k], ListenEntries[i])

\* C21 witness: two listening entries of process 7 on different ports, the
\* handle of the first not opened and the path of the second not resolved; both
\* ports are returned, the first blank in name and path, the second in path only
C21_Witness ==
    /\ PortsDone /\ Len(ListenEntries) = 2 /\ Len(allPorts) = 2
    /\ ListenEntries[1].conn.Pid > 0 /\ ListenEntries[1].lk.newErr
    /\ ListenEntries[2].conn.Pid > 0 /\ ~ListenEntries[2].lk.newErr /\ ListenEntries[2].lk.exeErr
    /\ \E k \in 1..2 :
          /\ allPorts[k].Port = ListenEntries[1].conn.Port
          /\ allPorts[k].Name = "" /\ allPorts[k].Path = ""
    /\ \E k \in 1..2 :
          /\ allPorts[k].Port = ListenEntries[2].conn.Port
          /\ allPorts[k].Name # "" /\ allPorts[k].Path = ""

\* C22: every record GetOpenPorts returns, filtered or not, has a port between
\* 1 and 65535, and no record is built from a raw entry with local port 0.
C22_PortRange ==
    PortsDone =>
        /\ \A r \in Range(allPorts) \cup Range(result) : r.Port >= 1 /\ r.Port <= 65535
        /\ Len(allPorts) <=
              Cardinality({ <<h.conn.IP, h.conn.Port>> : h \in Range(ListenEntries) })

\* C22 witness: a listening entry with local port 0 was enumerated next to a
\* listening entry with a port, and only the latter is returned
C22_Witness ==
    /\ PortsDone /\ Len(allPorts) = 1 /\ allPorts[1].Port = 443
    /\ \E i \in DOMAIN connections :
          connections[i].conn.Status = "LISTEN" /\ connections[i].conn.Port = 0

\* C25: every record GetOpenPorts returns, filtered or not, has protocol "TCP".
C25_AlwaysTcp ==
    PortsDone => \A r \in Range(allPorts) \cup Range(result) : r.Protocol = "TCP"

\* C25 witness: records of two processes on three addresses are returned
C25_Witness ==
    /\ PortsDone /\ Len(allPorts) = 3 /\ result = allPorts
    /\ \E i, j \in 1..3 : allPorts[i].PID = 0 /\ allPorts[j].PID = 7

(***************************************************************************)
(* Service listing: properties                                             *)
(***************************************************************************)
SvcDone == op = "services" /\ pc = "done"

SampleFailed(s) == s.newErr \/ s.memInfoErr

\* the records of the services that have a pid, in order
WithPid == SelectSeq(result, LAMBDA r : r.PID > 0)

NoResourceFields(r) ==
    r.CPUPercent = 0 /\ r.MemoryPercent = 0 /\ r.MemoryHuman = "" /\ r.CPUHuman = ""

\* C14: on every platform variant a resource sample that fails for a service's
\* pid does not fail the listing and does not drop the service: each sampling
\* call, in order, has its record with that pid, carrying name, status and pid
\* only when the sample failed, and the services after it are processed.
C14_SampleFailureDegrades ==
    SvcDone =>
        /\ sample # <<>> => err = ""
        /\ Len(WithPid) = Len(sample)
        /\ \A k \in 1..Len(sample) :
              /\ WithPid[k].PID = sample[k].pid
              /\ WithPid[k].Name # "" /\ WithPid[k].Status # ""
              /\ SampleFailed(sample[k].s) => NoResourceFields(WithPid[k])

\* two services with a pid: the sample of the first fails, the second is sampled
C14_Witness ==
    /\ SvcDone /\ err = "" /\ Len(sample) = 2 /\ Len(result) = 2
    /\ SampleFailed(sample[1].s) /\ ~SampleFailed(sample[2].s)
    /\ result[1].PID = 4000 /\ NoResourceFields(result[1])
    /\ result[2].CPUPercent = 50000

\* how many services the listing command reported
ReportedServices ==
    LET out   == outputs[1].out
        lines == Split(TrimSpace(out), "\n")
    IN  CASE goos = "darwin" ->
                Cardinality({i \in 2..Len(lines) : Len(Fields(lines[i])) >= 3})
          [] goos = "linux" ->
                Cardinality({i \in 1..Len(lines) : Len(Fields(lines[i])) >= 4})
          [] goos = "windows" ->
                IF out.t = "array" THEN Len(out.elems) ELSE 1

\* C15: a record has CPU or memory fields only if its pid is positive and the
\* sample for that pid succeeded; every reported service is emitted, and one
\* without a positive pid is emitted with pid 0 and no resource fields.
C15_ResourceFieldsNeedSample ==
    (SvcDone /\ outputs # <<>> /\ outputs[1].ok /\ err = "") =>
        /\ Len(result) = ReportedServices
        /\ \A i \in 1..Len(result) :
              /\ ~NoResourceFields(result[i]) =>
                    /\ result[i].PID > 0
                    /\ \E k \in 1..Len(sample) :
                          sample[k].pid = result[i].PID /\ ~SampleFailed(sample[k].s)
              /\ result[i].PID <= 0 => (result[i].PID = 0 /\ NoResourceFields(result[i]))

\* launchctl reports one service without a pid and one with a negative number
C15_Witness ==
    /\ SvcDone /\ goos = "darwin" /\ err = "" /\ sample = <<>>
    /\ outputs[1].out = LaunchctlHeader \o "\n-\t0\tcom.app.idle\n-5\t1\tcom.app.neg"
    /\ Len(result) = 2
    /\ result[1].PID = 0 /\ result[1].Name = "com.app.idle" /\ NoResourceFields(result[1])
    /\ result[2].PID = 0 /\ result[2].Name = "com.app.neg" /\ NoResourceFields(result[2])

\* the commands that belong to the variant of a platform
VariantCommands ==
    CASE op = "windows" /\ goos = "darwin"   -> {"osascript", "osascript-alt"}
      [] op = "windows" /\ goos = "linux"    -> {"wmctrl"}
      [] op = "services" /\ goos = "darwin"  -> {"launchctl"}
      [] op = "services" /\ goos = "linux"   -> {"systemctl"}
      [] goos = "windows"                    -> {"powershell"}
      [] OTHER                               -> {}

\* C16: on a platform other than macOS, Linux and Windows the window and the
\* service listing return an empty result and no error without running a
\* command; on a supported platform the commands run are those of that
\* platform's variant only.
C16_UnsupportedPlatformEmpty ==
    (op \in {"windows", "services"} /\ pc = "done") =>
        IF goos \in {"darwin", "linux", "windows"}
        THEN /\ outputs # <<>>
             /\ \A i \in 1..Len(outputs) : outputs[i].cmd \in VariantCommands
        ELSE result = <<>> /\ err = "" /\ outputs = <<>> /\ sample = <<>>

C16_Witness ==
    /\ op = "services" /\ pc = "done" /\ goos = "freebsd"
    /\ result = <<>> /\ err = "" /\ outputs = <<>>

\* the document the Windows listing command printed
WinDoc == outputs[1].out

\* a JSON object whose members have the types of the struct of part_002:176-180
WellTyped(o) == o.pid[1] \in {"number", "absent"}

\* the record is the one of JSON object o
RecordOfObject(r, o) ==
    /\ r.Name = o.Name
    /\ r.Status = ToLower(o.Status)
    /\ r.PID = (IF o.pid[1] = "number" THEN o.pid[2] ELSE 0)

\* C26: when the Windows listing command succeeded, an output that is an array
\* of well-typed objects yields one record per element, in the order of the
\* elements; an output that is one well-typed object yields exactly one record;
\* any other output makes the call return an error and no list.
C26_WindowsJsonDecode ==
    (SvcDone /\ goos = "windows" /\ outputs # <<>> /\ outputs[1].ok) =>
        CASE WinDoc.t = "array" /\ (\A i \in DOMAIN WinDoc.elems : WellTyped(WinDoc.elems[i])) ->
                /\ err = ""
                /\ Len(result) = Len(WinDoc.elems)
                /\ \A i \in DOMAIN result : RecordOfObject(result[i], WinDoc.elems[i])
          [] WinDoc.t = "object" /\ WellTyped(WinDoc.obj) ->
                /\ err = ""
                /\ Len(result) = 1
                /\ RecordOfObject(result[1], WinDoc.obj)
          [] OTHER ->
                err # "" /\ result = <<>>

\* C26 witness: an array of two services, the first with a process and the
\* second without, gives the two records in that order
C26_Witness ==
    /\ SvcDone /\ goos = "windows" /\ outputs # <<>> /\ outputs[1].ok
    /\ WinDoc.t = "array" /\ Len(WinDoc.elems) = 2
    /\ WinDoc.elems[1].pid = <<"number", 4000>> /\ WinDoc.elems[2].pid = <<"absent", 0>>
    /\ err = "" /\ Len(result) = 2 /\ result[1].PID = 4000 /\ result[2].PID = 0

(***************************************************************************)
(* Formatting: properties                                                  *)
(***************************************************************************)
FormatDone(fn) == op = "format" /\ pc = "done" /\ sample[1].fn = fn

\* x hundredths written with two decimals
TwoDecimals(x) ==
    ToString(x \div 100) \o "." \o ToString((x % 100) \div 10) \o ToString(x % 10)

Distance(a, b) == IF a >= b THEN a - b ELSE b - a

\* C23: FormatCPU returns "< 0.01%" for every value below 0.01, zero and the
\* negative values included, "100%" for every value of 100 or more, and for
\* every other value the nearest number of hundredths with two decimals and "%".
C23_FormatCPU ==
    FormatDone("FormatCPU") =>
        LET v == sample[1].arg
        IN  IF v < 10 THEN result = <<"< 0.01%">>
            ELSE IF v >= 100000 THEN result = <<"100%">>
            ELSE \E h \in {v \div 10, v \div 10 + 1} :
                    /\ 2 * Distance(v, 10 * h) < 10
                    /\ result = <<TwoDecimals(h) \o "%">>

\* FormatCPU(0.005)
C23_Witness == FormatDone("FormatCPU") /\ sample[1].arg = 5 /\ result = <<"< 0.01%">>

\* the largest j with 1024^j not above the value m * 1024^e
UnitIndex(b) == b.e + (IF b.m < 1024 THEN 0 ELSE IF b.m < 1048576 THEN 1 ELSE 2)

Suffixes == <<"K", "M", "G", "T", "P", "E">>

\* C24: FormatBytes writes a value below 1024 as the integer and " B"; a larger
\* value as its quotient by the largest power of 1024 not above it, to the
\* nearest hundredth with two decimals, then the letter of that power among
\* K, M, G, T, P, E and "B"; for every magnitude of a uint64 the power is one of
\* the six and the result is that quotient.
C24_FormatBytes ==
    FormatDone("FormatBytes") =>
        LET b     == sample[1].arg
            j     == UnitIndex(b)
            den   == 1024 ^ (j - b.e)
            whole == b.m \div den
            part  == b.m % den
        IN  IF j = 0 THEN result = <<ToString(b.m) \o " B">>
            ELSE /\ j \in DOMAIN Suffixes
                 /\ \E h \in 0..100 :
                       /\ 2 * Distance(100 * part, h * den) <= den
                       /\ result = <<TwoDecimals(100 * whole + h) \o " " \o Suffixes[j] \o "B">>

\* FormatBytes(1024)
C24_Witness ==
    /\ FormatDone("FormatBytes") /\ sample[1].arg = [m |-> 1024, e |-> 0]
    /\ result = <<"1.00 KB">>

(***************************************************************************)
(* HTTP surface: properties                                                *)
(***************************************************************************)
NonNumeric(v) == v # "" /\ \E i \in 1..Len(v) : ~IsDigit(CharAt(v, i))

\* C20: a request to /mcp/v1/ports or /mcp/v1/resource with a non-numeric port
\* or pid value is answered with status 500 and an error body, and no
\* collection call is made for it, also when the other value is well formed.
C20_InvalidQueryRejected ==
    (op = "http" /\ pc = "done" /\ (NonNumeric(query.port) \/ NonNumeric(query.pid))) =>
        /\ httpStatus = 500 /\ err # "" /\ result = <<>>
        /\ outputs = <<>> /\ sample = <<>>

(***************************************************************************)
(* Failure of the primary collection call                                  *)
(***************************************************************************)
PrimaryFailed == \E i \in 1..Len(outputs) : ~outputs[i].ok

C9_GracefulShutdown ==
    (op = "server" /\ signalled /\ exited # -1) => atSignal \subseteq completed

====
